---- MODULE Spec2Model ----
(***************************************************************************)
(* State-machine model of src/Status/archive/background_worker.py:         *)
(* BackgroundWorker, a registry of BackgroundTask records guarded by one   *)
(* non-reentrant lock, a FIFO queue.Queue of records, max_workers worker   *)
(* threads running _worker_loop, and the caller operations submit_task,    *)
(* get_status, get_result, cancel_task, get_task_info, list_tasks and      *)
(* shutdown.  Every `with self._lock:` block is one atomic step that needs *)
(* the lock free; steps outside a lock (queue.get, the shutdown flag, the  *)
(* call of the task's callable) are steps of their own.                    *)
(*                                                                         *)
(* Specifications (all over the same actions):                             *)
(*   Spec        the pool with 1..MaxWorkers workers, nothing recorded     *)
(*   SpecCalls   one worker, each call's response recorded in ret          *)
(*   SpecStop    the pool, with the state at the stop flag and at the      *)
(*               join recorded                                             *)
(*   SpecResult  one worker, one task id, a caller in get_result,          *)
(*               responses recorded                                        *)
(*   SpecAfterStop  SpecResult with the state at the stop flag and at     *)
(*               the join recorded too                                     *)
(*   SpecOrder   one worker, the order of submissions and of starts        *)
(*               recorded                                                  *)
(*   SpecFair    SpecResult with every thread scheduled again and again    *)
(*   SpecFairPool  the pool with one worker, scheduled in the same way     *)
(*   SpecFairWorkers  the pool with MaxWorkers workers, scheduled in the   *)
(*               same way                                                  *)
(* Beside the pool, with actions of their own:                             *)
(*   SpecGlobal  client threads using get_global_worker and                *)
(*               delegate_to_background                                    *)
(*   SpecZen     src/unified_agent.py, a ZenTasks board used through       *)
(*               create_task, update_task and get_ready_tasks              *)
(*   SpecOverseer  Overseer.execute_workflow, called up to MaxWorkflows    *)
(*               times, a call once begun going on                         *)
(* The variable traced says what a run records; recording changes no       *)
(* program variable.                                                       *)
(***************************************************************************)
EXTENDS Integers, Sequences, FiniteSets, TLC

\* ---------------------------------------------------------------- bounds
MaxTasks == 2       \* task ids a caller may use: 1..MaxTasks
MaxWorkers == 2     \* max_workers is drawn from 1..MaxWorkers at construction
MaxTime == 2        \* time.time() reads 1..MaxTime and never goes back
MaxResultTasks == 1 \* task ids in the specification with a get_result caller
MaxThreads == 2     \* client threads using the global worker
MaxZenTasks == 3    \* tasks created in a ZenTasks used through its own methods
MaxWorkflows == 2   \* execute_workflow calls on one Overseer
MaxDeps == 2        \* ids in the dependencies list given to create_task

TaskIds == 1..MaxTasks

\* ---------------------------------------------------------- Python values
\* One shape for every Python value the model passes around, so that any two
\* of them can be compared: t is the type's name, n an integer payload, s a
\* string payload (an exception's message, a status' value).
None == [t |-> "None", n |-> 0, s |-> ""]
PyInt(n) == [t |-> "int", n |-> n, s |-> ""]
PyBool(b) == [t |-> "bool", n |-> IF b THEN 1 ELSE 0, s |-> ""]
PyStatus(st) == [t |-> "TaskStatus", n |-> 0, s |-> st]
PyExc(type, msg) == [t |-> type, n |-> 0, s |-> msg]
PyStr(str) == [t |-> "str", n |-> 0, s |-> str]
PyFloat(x) == [t |-> "float", n |-> x, s |-> ""]
\* datetime.fromtimestamp(ts).isoformat(): a string that ts determines.
PyIso(ts) == [t |-> "str", n |-> ts, s |-> "isoformat"]
\* A dict carries its items in a further field: a function from the keys
\* that are present to their values.
PyDict(items) == [t |-> "dict", n |-> 0, s |-> "", items |-> items]

\* Optional[float] timestamps: NoTime stands for None; the clock starts at 1,
\* so no reading of time.time() equals it.
NoTime == 0

\* class TaskStatus(Enum)
QUEUED == "queued"
RUNNING == "running"
COMPLETED == "completed"
FAILED == "failed"
CANCELLED == "cancelled"

\* The classes `except Exception` catches, among those the model raises.
\* SystemExit derives from BaseException only.
ExceptionClasses == {"ValueError", "KeyError", "RuntimeError", "TimeoutError"}

\* The callables a caller submits, with their positional arguments:
\* simple_task(x, y) returns x + y, failing_task() raises ValueError,
\* exit_task() calls sys.exit(1), hang_task() never returns.
Works ==
    { [callable |-> "simple_task", args |-> <<5, 10>>],
      [callable |-> "failing_task", args |-> <<0, 0>>],
      [callable |-> "exit_task", args |-> <<0, 0>>],
      [callable |-> "hang_task", args |-> <<0, 0>>] }

\* task.callable(*task.args, **task.kwargs): what the call does.
Call(callable, args) ==
    CASE callable = "simple_task" ->
            [kind |-> "return", val |-> PyInt(args[1] + args[2])]
      [] callable = "failing_task" ->
            [kind |-> "raise", val |-> PyExc("ValueError", "Intentional test error")]
      [] callable = "exit_task" ->
            [kind |-> "raise", val |-> PyExc("SystemExit", "1")]
      [] OTHER ->
            [kind |-> "hang", val |-> None]

VARIABLES
    max_workers,     \* self.max_workers
    tasks,           \* self.tasks: task_id -> BackgroundTask
    task_queue,      \* self.task_queue: FIFO of records, by task_id
    unfinished,      \* task_queue.unfinished_tasks (put +1, task_done -1)
    shutdown_flag,   \* self.shutdown_flag (threading.Event)
    lock,            \* self._lock: "free" or the name of its holder
    now,             \* the last reading of time.time()
    wpc,             \* each worker thread's place in _worker_loop
    wtask,           \* each worker's local `task` (0: none)
    wout,            \* each worker's pending outcome of the call
    spc,             \* the shutdown caller: "idle" or "joining"
    gpc,             \* the get_result caller's place in its loop
    gid,             \* get_result's task_id
    gtimeout,        \* get_result's timeout (NoTimeout: None)
    gstart,          \* get_result's start_time
    ret,             \* what the call that ended in this step gave back
    invoked,         \* history: how often each task's callable was called
    cancel_ok,       \* history: ids for which cancel_task returned True
    joined,          \* history: a shutdown(wait=True) has returned
    queued_at_stop,  \* history: ids Queued when the stop flag was first set
    inflight_at_stop, \* history: workers past their flag check at that moment
    running_at_stop, \* history: ids Running when the stop flag was first set
    status_at_join,  \* history: the statuses when shutdown(wait=True) first returned
    submitted,       \* history: the ids in the order their submit_task took effect
    started,         \* history: the ids in the order they were marked Running
    timed_out,       \* history: ids for which a get_result raised TimeoutError
    traced,          \* the observations this run records: "calls" (ret), "stop",
                     \* "order"
    global_worker,   \* the module's _global_worker (NoWorker: None)
    instances,       \* the BackgroundWorker instances get_global_worker made:
                     \* for each, its registry task_id -> work
    tpc,             \* each client thread's place in its program
    tworker,         \* each client thread's local `worker`
    ztasks,          \* ZenTasks.tasks: number n of TASK-00n -> Task
    task_counter,    \* ZenTasks.task_counter
    opc,             \* the Overseer's place in execute_workflow
    ready,           \* execute_workflow's `ready_tasks`, what is left of it
    current,         \* execute_workflow's `task` (0: none)
    current_role,    \* Overseer.current_role
    feedback_history, \* Tasksync.feedback_history
    workflows,       \* history: how many execute_workflow calls were made
    executed         \* history: the roles run, in order, each with its task and outcome

vars == << max_workers, tasks, task_queue, unfinished, shutdown_flag, lock, now,
           wpc, wtask, wout, spc, gpc, gid, gtimeout, gstart, ret,
           invoked, cancel_ok, joined, queued_at_stop, inflight_at_stop,
           running_at_stop, status_at_join, submitted, started, timed_out,
           traced,
           global_worker, instances, tpc, tworker,
           ztasks, task_counter,
           opc, ready, current, current_role, feedback_history, workflows, executed >>

globalVars == << global_worker, instances, tpc, tworker >>
zenVars == << ztasks, task_counter >>
overseerVars == << opc, ready, current, current_role, feedback_history, workflows,
                  executed >>
\* What lies outside the BackgroundWorker instance.
outsideVars == << globalVars, zenVars, overseerVars >>

Workers == 1..max_workers

Free == "free"
NoTimeout == -1
NoOut == [kind |-> "none", val |-> None]
NoRet == [op |-> "none", id |-> 0, kind |-> "none", val |-> None]
\* A call returns v, or raises e, to its caller.
Returned(op, id, v) ==
    IF "calls" \in traced THEN [op |-> op, id |-> id, kind |-> "return", val |-> v] ELSE NoRet
Raised(op, id, e) ==
    IF "calls" \in traced THEN [op |-> op, id |-> id, kind |-> "raise", val |-> e] ELSE NoRet

\* `with self._lock:` -- the block runs as one step, entered with the lock
\* free and left with the lock released.
WithLock == lock = Free /\ lock' = Free

\* time.time(): a reading t no earlier than the last one.
TimeReads(t) == t \in now..(IF now < MaxTime THEN now + 1 ELSE MaxTime)

\* BackgroundTask(task_id=..., callable=..., args=...): the dataclass defaults.
BackgroundTask(work, t) ==
    [callable |-> work.callable, args |-> work.args, status |-> QUEUED,
     result |-> None, error |-> None,
     submitted_at |-> t, started_at |-> NoTime, completed_at |-> NoTime]

\* `_global_worker: Optional[BackgroundWorker] = None`
NoWorker == 0

\* The rest of the process at that moment: no global worker yet, the client
\* threads not started, a fresh ZenTasks (no task, task_counter = 0) and
\* Tasksync inside an Overseer on which execute_workflow was not called.
OutsideInit ==
    /\ global_worker = NoWorker
    /\ instances = << >>
    /\ tpc = [t \in 1..MaxThreads |-> "delegate"]
    /\ tworker = [t \in 1..MaxThreads |-> NoWorker]
    /\ ztasks = << >>
    /\ task_counter = 0
    /\ opc = "idle"
    /\ ready = << >>
    /\ current = 0
    /\ current_role = None
    /\ feedback_history = << >>
    /\ workflows = 0
    /\ executed = << >>

\* BackgroundWorker(max_workers=n): empty registry and queue, flag clear,
\* n worker threads started at the top of _worker_loop.
Constructed(n, tr) ==
    /\ max_workers = n
    /\ tasks = << >>
    /\ task_queue = << >>
    /\ unfinished = 0
    /\ shutdown_flag = FALSE
    /\ lock = Free
    /\ now = 1
    /\ wpc = [w \in 1..n |-> "check"]
    /\ wtask = [w \in 1..n |-> 0]
    /\ wout = [w \in 1..n |-> NoOut]
    /\ spc = "idle"
    /\ gpc = "idle"
    /\ gid = 0
    /\ gtimeout = NoTimeout
    /\ gstart = NoTime
    /\ ret = NoRet
    /\ invoked = [i \in TaskIds |-> 0]
    /\ cancel_ok = {}
    /\ joined = FALSE
    /\ queued_at_stop = {}
    /\ inflight_at_stop = {}
    /\ running_at_stop = {}
    /\ status_at_join = << >>
    /\ submitted = << >>
    /\ started = << >>
    /\ timed_out = {}
    /\ traced = tr
    /\ OutsideInit

Init == \E n \in 1..MaxWorkers : Constructed(n, {})

workerVars == << wpc, wtask, wout >>
getterVars == << gpc, gid, gtimeout, gstart >>
stopVars == << queued_at_stop, inflight_at_stop, running_at_stop >>
orderVars == << submitted, started >>
historyVars == << invoked, cancel_ok, joined, stopVars, status_at_join, orderVars,
                 timed_out, traced, outsideVars >>

\* Mutants: a record counts as known only once a worker has taken it; the
\* lookup of an unknown id fails with another exception class.
Known_started(task_id) == task_id \in DOMAIN tasks /\ tasks[task_id].status # QUEUED
NotFound_value(task_id) == PyExc("ValueError", "not found")

\* `if task_id not in self.tasks: raise KeyError(f"Task {task_id} not found")`
Known(task_id) == task_id \in DOMAIN tasks
NotFound(task_id) == PyExc("KeyError", "not found")

\* ------------------------------------------------------------ submit_task
\* Mutant: the duplicate check never fires.
IsDuplicate_never(task_id) == FALSE

\* `if task_id in self.tasks:`
IsDuplicate(task_id) == task_id \in DOMAIN tasks

submit_task(task_id, work) ==
    /\ WithLock
    /\ IF IsDuplicate(task_id)
       THEN /\ ret' = Raised("submit_task", task_id, PyExc("ValueError", "already exists"))
            /\ UNCHANGED << tasks, task_queue, unfinished, now >>
       ELSE \E t \in 1..MaxTime :
            /\ TimeReads(t)
            /\ now' = t
            /\ tasks' = [i \in DOMAIN tasks \cup {task_id} |->
                            IF i = task_id THEN BackgroundTask(work, t) ELSE tasks[i]]
            /\ task_queue' = Append(task_queue, task_id)
            /\ unfinished' = unfinished + 1
            /\ ret' = Returned("submit_task", task_id, PyInt(task_id))
    /\ submitted' = IF "order" \in traced /\ ~IsDuplicate(task_id)
                     THEN Append(submitted, task_id) ELSE submitted
    /\ UNCHANGED << max_workers, shutdown_flag, workerVars, spc, getterVars,
                    invoked, cancel_ok, joined, stopVars, status_at_join, started, timed_out,
                    traced, outsideVars >>

\* ------------------------------------------------------------- get_status
get_status(task_id) ==
    /\ WithLock
    /\ ret' = IF ~Known(task_id)
              THEN Raised("get_status", task_id, NotFound(task_id))
              ELSE Returned("get_status", task_id, PyStatus(tasks[task_id].status))
    /\ UNCHANGED << max_workers, tasks, task_queue, unfinished, shutdown_flag, now,
                    workerVars, spc, getterVars, historyVars >>

\* ------------------------------------------------------------ cancel_task
\* Mutants: cancel accepted for every status but Cancelled; cancel accepted
\* while the task runs.
CanCancel_any(status) == status # CANCELLED
CanCancel_running(status) == status \in {QUEUED, RUNNING}

\* `if task.status == TaskStatus.QUEUED`
CanCancel(status) == status = QUEUED

cancel_task(task_id) ==
    /\ WithLock
    /\ IF ~Known(task_id)
       THEN /\ ret' = Raised("cancel_task", task_id, NotFound(task_id))
            /\ UNCHANGED << tasks, cancel_ok >>
       ELSE IF CanCancel(tasks[task_id].status)
       THEN /\ tasks' = [tasks EXCEPT ![task_id].status = CANCELLED]
            /\ ret' = Returned("cancel_task", task_id, PyBool(TRUE))
            /\ cancel_ok' = cancel_ok \cup {task_id}
       ELSE /\ ret' = Returned("cancel_task", task_id, PyBool(FALSE))
            /\ UNCHANGED << tasks, cancel_ok >>
    /\ UNCHANGED << max_workers, task_queue, unfinished, shutdown_flag, now,
                    workerVars, spc, getterVars,
                    invoked, joined, stopVars, status_at_join, orderVars, timed_out,
                    traced, outsideVars >>

\* ---------------------------------------------------------- get_task_info
\* Mutant: a stamp counts as set whatever it holds.
Truthy_always(ts) == TRUE

\* `if task.started_at:` and `if task.completed_at:` -- None is false, and so
\* would be a reading 0.0, which the clock never gives.
Truthy(ts) == ts # NoTime

\* The dict built for a record: three keys always, started_at and
\* running_time once started, completed_at and total_time once completed,
\* error once an error is stored; t is the reading of time.time().
TaskInfo(task_id, task, t) ==
    [task_id |-> PyInt(task_id), status |-> PyStr(task.status),
     submitted_at |-> PyIso(task.submitted_at)]
    @@ (IF Truthy(task.started_at)
        THEN [started_at |-> PyIso(task.started_at),
              running_time |-> PyFloat(t - task.started_at)]
        ELSE << >>)
    @@ (IF Truthy(task.completed_at)
        THEN [completed_at |-> PyIso(task.completed_at),
              total_time |-> PyFloat(task.completed_at - task.submitted_at)]
        ELSE << >>)
    @@ (IF task.error # None THEN [error |-> PyStr(task.error.s)] ELSE << >>)

\* One locked block; the clock is read only for a started record.
get_task_info(task_id) ==
    /\ WithLock
    /\ IF ~Known(task_id)
       THEN /\ ret' = Raised("get_task_info", task_id, NotFound(task_id))
            /\ UNCHANGED now
       ELSE IF Truthy(tasks[task_id].started_at)
       THEN \E t \in 1..MaxTime :
            /\ TimeReads(t)
            /\ now' = t
            /\ ret' = Returned("get_task_info", task_id,
                               PyDict(TaskInfo(task_id, tasks[task_id], t)))
       ELSE /\ ret' = Returned("get_task_info", task_id,
                               PyDict(TaskInfo(task_id, tasks[task_id], now)))
            /\ UNCHANGED now
    /\ UNCHANGED << max_workers, tasks, task_queue, unfinished, shutdown_flag,
                    workerVars, spc, getterVars, historyVars >>

\* ------------------------------------------------------------- list_tasks
\* `with self._lock: return [self.get_task_info(tid) for tid in self.tasks.keys()]`
\* On an empty registry the comprehension calls nothing and [] is returned.
\* Otherwise the first get_task_info enters `with self._lock:` while this
\* thread holds the lock: threading.Lock is not reentrant, so the call blocks
\* for ever with the lock held.
list_tasks ==
    /\ lock = Free
    /\ IF DOMAIN tasks = {}
       THEN /\ lock' = Free
            /\ ret' = Returned("list_tasks", 0, PyInt(0))
       ELSE /\ lock' = "list_tasks"
            /\ ret' = NoRet
    /\ UNCHANGED << max_workers, tasks, task_queue, unfinished, shutdown_flag, now,
                    workerVars, spc, getterVars, historyVars >>

\* ------------------------------------------------------------- get_result
\* timeout: None or a number of clock units.
Timeouts == {NoTimeout, 0}

\* `start_time = time.time()`, then the first iteration of `while True:`.
get_result(task_id, timeout) ==
    /\ gpc = "idle"
    /\ \E t \in 1..MaxTime :
        /\ TimeReads(t)
        /\ now' = t
        /\ gstart' = t
    /\ gid' = task_id
    /\ gtimeout' = timeout
    /\ gpc' = "locked"
    /\ ret' = NoRet
    /\ UNCHANGED << max_workers, tasks, task_queue, unfinished, shutdown_flag, lock,
                    workerVars, spc, historyVars >>

\* get_result leaves: its locals are gone.
GetResultEnds ==
    /\ gpc' = "idle"
    /\ gid' = 0
    /\ gtimeout' = NoTimeout
    /\ gstart' = NoTime

\* The first locked block of an iteration: KeyError, the result, the stored
\* error, "was cancelled", or on to the shutdown check.
get_result_locked ==
    /\ gpc = "locked"
    /\ WithLock
    /\ IF ~Known(gid)
       THEN ret' = Raised("get_result", gid, NotFound(gid)) /\ GetResultEnds
       ELSE IF tasks[gid].status = COMPLETED
       THEN ret' = Returned("get_result", gid, tasks[gid].result) /\ GetResultEnds
       ELSE IF tasks[gid].status = FAILED
       THEN ret' = Raised("get_result", gid, tasks[gid].error) /\ GetResultEnds
       ELSE IF tasks[gid].status = CANCELLED
       THEN ret' = Raised("get_result", gid, PyExc("RuntimeError", "was cancelled"))
            /\ GetResultEnds
       ELSE /\ gpc' = "flag"
            /\ ret' = NoRet
            /\ UNCHANGED << gid, gtimeout, gstart >>
    /\ UNCHANGED << max_workers, tasks, task_queue, unfinished, shutdown_flag, now,
                    workerVars, spc, historyVars >>

\* Mutant: the stop flag is not looked at before the deadline.
AfterFlag_skipped(flag) == "timeout"

\* Where the iteration goes after line 174: into the second locked block
\* when the flag is set, else straight to the timeout check.
AfterFlag(flag) == IF flag THEN "relock" ELSE "timeout"

\* `if self.shutdown_flag.is_set():` read with no lock held.
get_result_flag ==
    /\ gpc = "flag"
    /\ gpc' = AfterFlag(shutdown_flag)
    /\ ret' = NoRet
    /\ UNCHANGED << max_workers, tasks, task_queue, unfinished, shutdown_flag, lock, now,
                    workerVars, spc, gid, gtimeout, gstart, historyVars >>

\* Mutant: the second locked block finds every record finished.
Unfinished_never(status) == FALSE

\* `if task.status not in [TaskStatus.COMPLETED, TaskStatus.FAILED]:`
Unfinished(status) == status \notin {COMPLETED, FAILED}

\* The second locked block, entered with the flag seen set.
get_result_relock ==
    /\ gpc = "relock"
    /\ WithLock
    /\ IF Unfinished(tasks[gid].status)
       THEN ret' = Raised("get_result", gid, PyExc("RuntimeError", "shutdown before completed"))
            /\ GetResultEnds
       ELSE /\ gpc' = "timeout"
            /\ ret' = NoRet
            /\ UNCHANGED << gid, gtimeout, gstart >>
    /\ UNCHANGED << max_workers, tasks, task_queue, unfinished, shutdown_flag, now,
                    workerVars, spc, historyVars >>

\* Mutant: the deadline has always passed.
Elapsed_always(t, start_time, timeout) == TRUE

\* `if time.time() - start_time > timeout:`
Elapsed(t, start_time, timeout) == t - start_time > timeout

\* `if timeout is not None: if time.time() - start_time > timeout: raise`,
\* else `time.sleep(0.1)` and the next iteration.
get_result_timeout ==
    /\ gpc = "timeout"
    /\ IF gtimeout = NoTimeout
       THEN /\ gpc' = "locked"
            /\ ret' = NoRet
            /\ UNCHANGED << now, gid, gtimeout, gstart, timed_out >>
       ELSE \E t \in 1..MaxTime :
            /\ TimeReads(t)
            /\ now' = t
            /\ IF Elapsed(t, gstart, gtimeout)
               THEN /\ ret' = Raised("get_result", gid, PyExc("TimeoutError", "did not complete"))
                    /\ timed_out' = IF "calls" \in traced
                                     THEN timed_out \cup {gid} ELSE timed_out
                    /\ GetResultEnds
               ELSE /\ gpc' = "locked"
                    /\ ret' = NoRet
                    /\ UNCHANGED << gid, gtimeout, gstart, timed_out >>
    /\ UNCHANGED << max_workers, tasks, task_queue, unfinished, shutdown_flag, lock,
                    workerVars, spc,
                    invoked, cancel_ok, joined, stopVars, status_at_join, orderVars, traced, outsideVars >>

\* --------------------------------------------------------------- shutdown
\* Mutant: the call flips the flag, so a second call clears it.
shutdown_toggle(wait) ==
    /\ spc = "idle"
    /\ shutdown_flag' = ~shutdown_flag
    /\ IF "stop" \in traced /\ ~shutdown_flag
       THEN /\ queued_at_stop' = {i \in DOMAIN tasks : tasks[i].status = QUEUED}
            /\ inflight_at_stop' = {w \in Workers : wpc[w] \in {"get", "claim"}}
            /\ running_at_stop' = {i \in DOMAIN tasks : tasks[i].status = RUNNING}
       ELSE UNCHANGED stopVars
    /\ IF wait
       THEN spc' = "joining" /\ ret' = NoRet
       ELSE spc' = "idle" /\ ret' = Returned("shutdown", 0, None)
    /\ UNCHANGED << max_workers, tasks, task_queue, unfinished, lock, now,
                    workerVars, getterVars,
                    invoked, cancel_ok, joined, status_at_join, orderVars, timed_out,
                    traced, outsideVars >>

\* self.shutdown_flag.set(), then, if wait, worker.join() for every worker.
shutdown(wait) ==
    /\ spc = "idle"
    /\ shutdown_flag' = TRUE
    /\ IF "stop" \in traced /\ ~shutdown_flag
       THEN /\ queued_at_stop' = {i \in DOMAIN tasks : tasks[i].status = QUEUED}
            /\ inflight_at_stop' = {w \in Workers : wpc[w] \in {"get", "claim"}}
            /\ running_at_stop' = {i \in DOMAIN tasks : tasks[i].status = RUNNING}
       ELSE UNCHANGED stopVars
    /\ IF wait
       THEN spc' = "joining" /\ ret' = NoRet
       ELSE spc' = "idle" /\ ret' = Returned("shutdown", 0, None)
    /\ UNCHANGED << max_workers, tasks, task_queue, unfinished, lock, now,
                    workerVars, getterVars,
                    invoked, cancel_ok, joined, status_at_join, orderVars, timed_out,
                    traced, outsideVars >>

\* Mutant: join returns at once, whatever the worker is doing.
IsAlive_never(w) == FALSE

\* Thread.is_alive(): a worker that left its loop, or that an escaping
\* exception ended, is no longer alive.
IsAlive(w) == wpc[w] \notin {"exited", "dead"}

\* The joins of `for worker in self.workers: worker.join()` have all returned
\* exactly when no worker is alive (a thread that ended never runs again).
shutdown_join ==
    /\ spc = "joining"
    /\ \A w \in Workers : ~IsAlive(w)
    /\ spc' = "idle"
    /\ joined' = TRUE
    /\ status_at_join' = IF "stop" \in traced /\ ~joined
                         THEN [i \in DOMAIN tasks |-> tasks[i].status]
                         ELSE status_at_join
    /\ ret' = Returned("shutdown", 0, None)
    /\ UNCHANGED << max_workers, tasks, task_queue, unfinished, shutdown_flag, lock,
                    now, workerVars, getterVars,
                    invoked, cancel_ok, stopVars, orderVars, timed_out,
                    traced, outsideVars >>

\* ----------------------------------------------------------- _worker_loop
\* Mutant: the loop never looks at the flag.
LoopContinues_always(flag) == TRUE

\* `while not self.shutdown_flag.is_set():`
LoopContinues(flag) == ~flag

worker_check(w) ==
    /\ wpc[w] = "check"
    /\ wpc' = [wpc EXCEPT ![w] = IF LoopContinues(shutdown_flag) THEN "get" ELSE "exited"]
    /\ ret' = NoRet
    /\ UNCHANGED << max_workers, tasks, task_queue, unfinished, shutdown_flag, lock,
                    now, wtask, wout, spc, getterVars, historyVars >>

\* Mutant: the queue gives its oldest item and keeps it.
QueueGet_peek(q) == [item |-> Head(q), rest |-> q]

\* Mutant: the queue gives its oldest item and puts it back at the end.
QueueGet_requeue(q) == [item |-> Head(q), rest |-> Append(Tail(q), Head(q))]

\* Mutant: the queue gives its newest item.
QueueGet_lifo(q) == [item |-> q[Len(q)], rest |-> SubSeq(q, 1, Len(q) - 1)]

\* queue.Queue.get on a non-empty queue: the oldest item leaves the queue.
QueueGet(q) == [item |-> Head(q), rest |-> Tail(q)]

\* `task = self.task_queue.get(timeout=0.5)` returning the head of the queue.
worker_get(w) ==
    /\ wpc[w] = "get"
    /\ task_queue # << >>
    /\ wtask' = [wtask EXCEPT ![w] = QueueGet(task_queue).item]
    /\ task_queue' = QueueGet(task_queue).rest
    /\ wpc' = [wpc EXCEPT ![w] = "claim"]
    /\ ret' = NoRet
    /\ UNCHANGED << max_workers, tasks, unfinished, shutdown_flag, lock, now, wout,
                    spc, getterVars, historyVars >>

\* `except queue.Empty: continue` -- the get timed out on an empty queue.
worker_empty(w) ==
    /\ wpc[w] = "get"
    /\ task_queue = << >>
    /\ wpc' = [wpc EXCEPT ![w] = "check"]
    /\ ret' = NoRet
    /\ UNCHANGED << max_workers, tasks, task_queue, unfinished, shutdown_flag, lock,
                    now, wtask, wout, spc, getterVars, historyVars >>

\* Mutant: the dequeued record is run whatever its status.
Discarded_never(status) == FALSE

\* `if task.status == TaskStatus.CANCELLED:` -- discard the dequeued record.
Discarded(status) == status = CANCELLED

\* Mutant: the worker keeps the lock when it goes on to call the callable.
worker_claim_holding(w) ==
    /\ wpc[w] = "claim"
    /\ lock = Free
    /\ lock' = IF Discarded(tasks[wtask[w]].status) THEN Free ELSE "worker"
    /\ ret' = NoRet
    /\ IF Discarded(tasks[wtask[w]].status)
       THEN /\ unfinished' = unfinished - 1
            /\ wpc' = [wpc EXCEPT ![w] = "check"]
            /\ wtask' = [wtask EXCEPT ![w] = 0]
            /\ UNCHANGED << tasks, now, started >>
       ELSE \E t \in 1..MaxTime :
            /\ TimeReads(t)
            /\ now' = t
            /\ tasks' = [tasks EXCEPT ![wtask[w]].status = RUNNING,
                                      ![wtask[w]].started_at = t]
            /\ started' = IF "order" \in traced THEN Append(started, wtask[w]) ELSE started
            /\ wpc' = [wpc EXCEPT ![w] = "call"]
            /\ UNCHANGED << unfinished, wtask >>
    /\ UNCHANGED << max_workers, task_queue, shutdown_flag, wout, spc, getterVars,
                    invoked, cancel_ok, joined, stopVars, status_at_join, submitted, timed_out,
                    traced, outsideVars >>

\* The first locked block of the loop: discard a cancelled record, or mark
\* the record running and stamp started_at.
worker_claim(w) ==
    /\ wpc[w] = "claim"
    /\ WithLock
    /\ ret' = NoRet
    /\ IF Discarded(tasks[wtask[w]].status)
       THEN /\ unfinished' = unfinished - 1
            /\ wpc' = [wpc EXCEPT ![w] = "check"]
            /\ wtask' = [wtask EXCEPT ![w] = 0]
            /\ UNCHANGED << tasks, now, started >>
       ELSE \E t \in 1..MaxTime :
            /\ TimeReads(t)
            /\ now' = t
            /\ tasks' = [tasks EXCEPT ![wtask[w]].status = RUNNING,
                                      ![wtask[w]].started_at = t]
            /\ started' = IF "order" \in traced THEN Append(started, wtask[w]) ELSE started
            /\ wpc' = [wpc EXCEPT ![w] = "call"]
            /\ UNCHANGED << unfinished, wtask >>
    /\ UNCHANGED << max_workers, task_queue, shutdown_flag, wout, spc, getterVars,
                    invoked, cancel_ok, joined, stopVars, status_at_join, submitted, timed_out,
                    traced, outsideVars >>

\* `except Exception as e:` -- the classes the handler catches.
Caught(e) == e.t \in ExceptionClasses

\* `result = task.callable(*task.args, **task.kwargs)` with no lock held.  A
\* value or a caught exception is kept for the locked block that stores it;
\* an exception the handler does not catch runs `finally` and ends the
\* thread; a callable that never returns keeps the worker in the call.
worker_call(w) ==
    /\ wpc[w] = "call"
    /\ invoked' = [invoked EXCEPT ![wtask[w]] = @ + 1]
    /\ ret' = NoRet
    /\ LET out == Call(tasks[wtask[w]].callable, tasks[wtask[w]].args) IN
       IF out.kind = "hang"
       THEN /\ wpc' = [wpc EXCEPT ![w] = "hung"]
            /\ UNCHANGED << wout, wtask, unfinished >>
       ELSE IF out.kind = "return" \/ Caught(out.val)
       THEN /\ wpc' = [wpc EXCEPT ![w] = "store"]
            /\ wout' = [wout EXCEPT ![w] = out]
            /\ UNCHANGED << wtask, unfinished >>
       ELSE /\ wpc' = [wpc EXCEPT ![w] = "dead"]
            /\ wtask' = [wtask EXCEPT ![w] = 0]
            /\ unfinished' = unfinished - 1
            /\ UNCHANGED wout
    /\ UNCHANGED << max_workers, tasks, task_queue, shutdown_flag, lock, now, spc,
                    getterVars, cancel_ok, joined, stopVars, status_at_join, orderVars,
                    timed_out, traced, outsideVars >>

\* Mutants: the status is left as it was; the result is not kept; the error
\* is kept wrapped in a new exception.
Stored_nostatus(task, out, t) ==
    IF out.kind = "return"
    THEN [task EXCEPT !.result = out.val, !.completed_at = t]
    ELSE [task EXCEPT !.error = out.val, !.completed_at = t]
Stored_noresult(task, out, t) ==
    IF out.kind = "return"
    THEN [task EXCEPT !.status = COMPLETED, !.completed_at = t]
    ELSE [task EXCEPT !.error = out.val, !.status = FAILED, !.completed_at = t]
Stored_wrapped(task, out, t) ==
    IF out.kind = "return"
    THEN [task EXCEPT !.result = out.val, !.status = COMPLETED, !.completed_at = t]
    ELSE [task EXCEPT !.error = PyExc("RuntimeError", "task failed"),
                      !.status = FAILED, !.completed_at = t]

\* Mutants: a raised exception is kept as the result too; completed_at is
\* not stamped.
Stored_both(task, out, t) ==
    IF out.kind = "return"
    THEN [task EXCEPT !.result = out.val, !.status = COMPLETED, !.completed_at = t]
    ELSE [task EXCEPT !.result = out.val, !.error = out.val,
                      !.status = FAILED, !.completed_at = t]
Stored_nostamp(task, out, t) ==
    IF out.kind = "return"
    THEN [task EXCEPT !.result = out.val, !.status = COMPLETED]
    ELSE [task EXCEPT !.error = out.val, !.status = FAILED]

\* Mutant: the block that stores the outcome stamps started_at again.
Stored_restamped(task, out, t) ==
    IF out.kind = "return"
    THEN [task EXCEPT !.result = out.val, !.status = COMPLETED,
                      !.started_at = t, !.completed_at = t]
    ELSE [task EXCEPT !.error = out.val, !.status = FAILED,
                      !.started_at = t, !.completed_at = t]

\* The locked block after the call: result + COMPLETED, or error + FAILED,
\* with completed_at; then `finally: self.task_queue.task_done()`.
Stored(task, out, t) ==
    IF out.kind = "return"
    THEN [task EXCEPT !.result = out.val, !.status = COMPLETED, !.completed_at = t]
    ELSE [task EXCEPT !.error = out.val, !.status = FAILED, !.completed_at = t]

\* Mutant: the record leaves the registry once its outcome is known.
worker_store_evicting(w) ==
    /\ wpc[w] = "store"
    /\ WithLock
    /\ ret' = NoRet
    /\ \E t \in 1..MaxTime :
        /\ TimeReads(t)
        /\ now' = t
        /\ tasks' = [i \in DOMAIN tasks \ {wtask[w]} |-> tasks[i]]
    /\ unfinished' = unfinished - 1
    /\ wpc' = [wpc EXCEPT ![w] = "check"]
    /\ wtask' = [wtask EXCEPT ![w] = 0]
    /\ wout' = [wout EXCEPT ![w] = NoOut]
    /\ UNCHANGED << max_workers, task_queue, shutdown_flag, spc, getterVars, historyVars >>

worker_store(w) ==
    /\ wpc[w] = "store"
    /\ WithLock
    /\ ret' = NoRet
    /\ \E t \in 1..MaxTime :
        /\ TimeReads(t)
        /\ now' = t
        /\ tasks' = [tasks EXCEPT ![wtask[w]] = Stored(@, wout[w], t)]
    /\ unfinished' = unfinished - 1
    /\ wpc' = [wpc EXCEPT ![w] = "check"]
    /\ wtask' = [wtask EXCEPT ![w] = 0]
    /\ wout' = [wout EXCEPT ![w] = NoOut]
    /\ UNCHANGED << max_workers, task_queue, shutdown_flag, spc, getterVars, historyVars >>

\* The pool: every operation but get_result, on the ids `ids`.
PoolNext(ids) ==
    \/ \E id \in ids, work \in Works : submit_task(id, work)
    \/ \E id \in ids : get_status(id)
    \/ \E id \in ids : cancel_task(id)
    \/ \E id \in ids : get_task_info(id)
    \/ list_tasks
    \/ \E wait \in BOOLEAN : shutdown(wait)
    \/ shutdown_join
    \/ \E w \in Workers : worker_check(w)
    \/ \E w \in Workers : worker_get(w)
    \/ \E w \in Workers : worker_empty(w)
    \/ \E w \in Workers : worker_claim(w)
    \/ \E w \in Workers : worker_call(w)
    \/ \E w \in Workers : worker_store(w)

\* One caller in get_result, on the ids `ids`.
ResultNext(ids) ==
    \/ \E id \in ids, timeout \in Timeouts : get_result(id, timeout)
    \/ get_result_locked
    \/ get_result_flag
    \/ get_result_relock
    \/ get_result_timeout

Next == PoolNext(TaskIds)

\* The pool under every interleaving of its callers and workers.
Spec == Init /\ [][Next]_vars

\* One worker, the calls' responses recorded.
InitCalls == Constructed(1, {"calls"})
SpecCalls == InitCalls /\ [][Next]_vars

\* The pool, with the state at the stop flag and at the join recorded.
InitStop == \E n \in 1..MaxWorkers : Constructed(n, {"stop"})
SpecStop == InitStop /\ [][Next]_vars

\* One worker, one task id, and a caller in get_result, responses recorded.
ResultIds == 1..MaxResultTasks
InitResult == Constructed(1, {"calls"})
NextResult == PoolNext(ResultIds) \/ ResultNext(ResultIds)
SpecResult == InitResult /\ [][NextResult]_vars

\* SpecResult with the state at the stop flag and at the join recorded too.
InitAfterStop == Constructed(1, {"calls", "stop"})
SpecAfterStop == InitAfterStop /\ [][NextResult]_vars

\* One worker, the order of submissions and of starts recorded.
InitOrder == Constructed(1, {"order"})
SpecOrder == InitOrder /\ [][Next]_vars

\* Thread scheduling: a thread that can take its next step is not held back
\* for ever.  This holds for each worker thread, for the caller inside
\* get_result (its loop sleeps 0.1 s and goes on, line 186) and for the
\* caller inside shutdown's joins.  A step that needs the lock can be taken
\* only while the lock is free; nothing is assumed about callers starting
\* new calls.
WorkerStep(w) ==
    /\ w \in Workers
    /\ \/ worker_check(w) \/ worker_get(w) \/ worker_empty(w)
       \/ worker_claim(w) \/ worker_call(w) \/ worker_store(w)
GetResultStep ==
    get_result_locked \/ get_result_flag \/ get_result_relock \/ get_result_timeout
Fairness ==
    /\ \A w \in 1..MaxWorkers : WF_vars(WorkerStep(w))
    /\ WF_vars(GetResultStep)
    /\ WF_vars(shutdown_join)

\* SpecResult under that scheduling.
SpecFair == InitResult /\ [][NextResult]_vars /\ Fairness

\* The pool with one worker under that scheduling, nothing recorded.
InitFairPool == Constructed(1, {})
SpecFairPool == InitFairPool /\ [][Next]_vars /\ Fairness

\* The pool with MaxWorkers workers under that scheduling, nothing recorded.
InitFairWorkers == Constructed(MaxWorkers, {})
SpecFairWorkers == InitFairWorkers /\ [][Next]_vars /\ Fairness

\* ===================================================== the global worker
\* get_global_worker and delegate_to_background, called by client threads
\* that each run the program of test_global_worker_delegate:
\*     task_id = delegate_to_background(id, work, args)
\*     worker = get_global_worker()
\*     result = worker.get_result(task_id)
\* An instance is kept as its registry alone; what its pool does with the
\* records is the model above.
Threads == 1..MaxThreads

\* Every variable of the BackgroundWorker instance modelled above but ret.
poolVars == << max_workers, tasks, task_queue, unfinished, shutdown_flag, lock, now,
              workerVars, spc, getterVars, invoked, cancel_ok, joined, stopVars,
              status_at_join, orderVars, timed_out, traced >>

\* The work a client thread delegates.
ClientWork == [callable |-> "simple_task", args |-> <<5, 10>>]

\* Mutant: the instance is replaced on every call.
IsNone_always(gw) == TRUE

\* `if _global_worker is None:`
IsNone(gw) == gw = NoWorker

\* The call of get_global_worker begins (inside delegate_to_background, line
\* 338, or by the client itself) and tests the global.
global_check(t) ==
    /\ tpc[t] \in {"delegate", "get"}
    /\ tpc' = [tpc EXCEPT ![t] = IF IsNone(global_worker)
                                 THEN @ \o "_create" ELSE @ \o "_return"]
    /\ ret' = NoRet
    /\ UNCHANGED << poolVars, global_worker, instances, tworker, zenVars, overseerVars >>

\* `_global_worker = BackgroundWorker()`: a new instance, stored in the
\* global whatever the global holds by now.
global_create(t) ==
    /\ tpc[t] \in {"delegate_create", "get_create"}
    /\ instances' = Append(instances, << >>)
    /\ global_worker' = Len(instances) + 1
    /\ tpc' = [tpc EXCEPT ![t] = IF @ = "delegate_create"
                                 THEN "delegate_return" ELSE "get_return"]
    /\ ret' = NoRet
    /\ UNCHANGED << poolVars, tworker, zenVars, overseerVars >>

\* `return _global_worker`: the global as it is read now.
global_return(t) ==
    /\ tpc[t] \in {"delegate_return", "get_return"}
    /\ tworker' = [tworker EXCEPT ![t] = global_worker]
    /\ tpc' = [tpc EXCEPT ![t] = IF @ = "delegate_return" THEN "submit" ELSE "result"]
    /\ ret' = NoRet
    /\ UNCHANGED << poolVars, global_worker, instances, zenVars, overseerVars >>

\* `return worker.submit_task(task_id, callable, *args, **kwargs)` on the
\* instance the thread got: ValueError for an id in its registry, else the
\* record is registered and the id returned.  Thread t uses the id t.
delegate_submit(t) ==
    /\ tpc[t] = "submit"
    /\ IF t \in DOMAIN instances[tworker[t]]
       THEN /\ ret' = Raised("delegate_to_background", t, PyExc("ValueError", "already exists"))
            /\ tpc' = [tpc EXCEPT ![t] = "done"]
            /\ UNCHANGED instances
       ELSE /\ instances' = [instances EXCEPT ![tworker[t]] =
                                [i \in DOMAIN @ \cup {t} |-> IF i = t THEN ClientWork ELSE @[i]]]
            /\ ret' = Returned("delegate_to_background", t, PyInt(t))
            /\ tpc' = [tpc EXCEPT ![t] = "get"]
    /\ UNCHANGED << poolVars, global_worker, tworker, zenVars, overseerVars >>

\* `worker.get_result(task_id)` on the instance get_global_worker returned:
\* KeyError for an id that is not in that instance's registry, else what the
\* record's work gives.
global_get_result(t) ==
    /\ tpc[t] = "result"
    /\ ret' = IF t \notin DOMAIN instances[tworker[t]]
              THEN Raised("get_result", t, NotFound(t))
              ELSE LET work == instances[tworker[t]][t] IN
                   Returned("get_result", t, Call(work.callable, work.args).val)
    /\ tpc' = [tpc EXCEPT ![t] = "done"]
    /\ UNCHANGED << poolVars, global_worker, instances, tworker, zenVars, overseerVars >>

NextGlobal ==
    \/ \E t \in Threads : global_check(t)
    \/ \E t \in Threads : global_create(t)
    \/ \E t \in Threads : global_return(t)
    \/ \E t \in Threads : delegate_submit(t)
    \/ \E t \in Threads : global_get_result(t)

\* The client threads, their calls' responses recorded.
InitGlobal == Constructed(1, {"calls"})
SpecGlobal == InitGlobal /\ [][NextGlobal]_vars

\* =============================================================== ZenTasks
\* src/unified_agent.py.  A task id is f"TASK-{task_counter:03d}": one string
\* per counter value, so the model keys the board by the counter value.

\* class RoleType(Enum), in declaration order.
RoleTypes == << "planner", "architect", "coder", "reviewer", "executor" >>

\* The statuses the Task dataclass documents.
ZenStatuses == {"pending", "in_progress", "completed", "blocked"}

\* The assignees and outputs a direct caller of ZenTasks passes.
ZenAssignees == {"planner"}
ZenOutputs == {None}

\* An id no task ever has ("NONEXISTENT" in the tests).
Nonexistent == 0

\* The ids a caller can name: those create_task gives, and one that is none.
ZenIds == {Nonexistent} \cup (1..MaxZenTasks)

\* `dependencies` lists a caller passes: up to MaxDeps ids.
DepLists == {d \in SUBSET ZenIds : Cardinality(d) <= MaxDeps}

\* Task(id, description, status="pending", assignee=None, dependencies=[],
\* output=None); the dependencies are kept as the set of ids listed.
NewTask(assignee, dependencies) ==
    [status |-> "pending", assignee |-> assignee,
     dependencies |-> dependencies, output |-> None]

\* Mutant: the stand-in for a missing task counts as completed.
DefaultTask_completed ==
    [status |-> "completed", assignee |-> None, dependencies |-> {}, output |-> None]

\* `Task("", "")`, what self.tasks.get(dep_id, ...) gives for a missing id.
DefaultTask == NewTask(None, {})

\* `self.tasks.get(dep_id, Task("", ""))`
TasksGet(zt, dep_id) == IF dep_id \in DOMAIN zt THEN zt[dep_id] ELSE DefaultTask

\* `all(self.tasks.get(dep_id, Task("", "")).status == "completed"
\*      for dep_id in task.dependencies)`
DepsMet(zt, task) ==
    \A dep_id \in task.dependencies : TasksGet(zt, dep_id).status = "completed"

\* get_ready_tasks: the ids of the pending tasks whose dependencies are met,
\* in the dict's order, which is the order of creation.
get_ready_tasks(zt) ==
    SelectSeq([i \in 1..Len(zt) |-> i],
              LAMBDA i : zt[i].status = "pending" /\ DepsMet(zt, zt[i]))

\* `if output:` -- None and "" are false.
HasOutput(output) == output # None /\ output # PyStr("")

\* The board after create_task: `self.tasks[task_id] = task`.
Created(zt, task_id, assignee, dependencies) ==
    [i \in DOMAIN zt \cup {task_id} |->
        IF i = task_id THEN NewTask(assignee, dependencies) ELSE zt[i]]

\* The board after update_task: nothing for an id that is not on it; else
\* the status is stored as given, and the output if there is one.
Updated(zt, task_id, status, output) ==
    IF task_id \in DOMAIN zt
    THEN [zt EXCEPT ![task_id].status = status,
                    ![task_id].output = IF HasOutput(output) THEN output ELSE @]
    ELSE zt

\* The count get_workflow_status makes for one status.
CountStatus(zt, status) == Cardinality({i \in DOMAIN zt : zt[i].status = status})

\* get_workflow_status; the percentage is completed / total * 100, kept
\* here as the integer part.
get_workflow_status(zt) ==
    LET total == Len(zt)
        completed == CountStatus(zt, "completed")
        in_progress == CountStatus(zt, "in_progress")
        blocked == CountStatus(zt, "blocked")
    IN  [total |-> total, completed |-> completed, in_progress |-> in_progress,
         blocked |-> blocked,
         pending |-> total - completed - in_progress - blocked,
         progress_percentage |-> IF total > 0 THEN (completed * 100) \div total ELSE 0]

\* zen.create_task(description, assignee, dependencies)
create_task(assignee, dependencies) ==
    /\ task_counter < MaxZenTasks
    /\ task_counter' = task_counter + 1
    /\ ztasks' = Created(ztasks, task_counter + 1, assignee, dependencies)
    /\ ret' = Returned("create_task", task_counter + 1, PyInt(task_counter + 1))
    /\ UNCHANGED << poolVars, globalVars, overseerVars >>

\* zen.update_task(task_id, status, output)
update_task(task_id, status, output) ==
    /\ ztasks' = Updated(ztasks, task_id, status, output)
    /\ ret' = Returned("update_task", task_id, None)
    /\ UNCHANGED << poolVars, globalVars, task_counter, overseerVars >>

\* zen.get_ready_tasks(): the board is only read, the list is the response.
zen_get_ready_tasks ==
    /\ ret' = Returned("get_ready_tasks", Nonexistent, get_ready_tasks(ztasks))
    /\ UNCHANGED << poolVars, globalVars, zenVars, overseerVars >>

NextZen ==
    \/ \E assignee \in ZenAssignees, dependencies \in DepLists :
            create_task(assignee, dependencies)
    \/ \E task_id \in ZenIds, status \in ZenStatuses, output \in ZenOutputs :
            update_task(task_id, status, output)
    \/ zen_get_ready_tasks

\* A ZenTasks used through its three methods.
InitZen == Constructed(1, {"calls"})
SpecZen == InitZen /\ [][NextZen]_vars

\* =============================================================== Overseer
\* src/unified_agent.py, Overseer.execute_workflow.  The roles are text
\* generators; the model keeps of a role's run only how it ends.  The
\* execution log and the Context are written and never read by the
\* workflow, and are left out.

\* Every variable of the BackgroundWorker instance but the clock and ret.
instanceVars == << max_workers, tasks, task_queue, unfinished, shutdown_flag, lock,
                  workerVars, spc, getterVars, invoked, cancel_ok, joined, stopVars,
                  status_at_join, orderVars, timed_out, traced >>

\* How role.execute(context, task) ends: it returns its text, raises an
\* Exception, or raises a BaseException that is no Exception.
RoleOutcomes == {"ok", "Exception", "BaseException"}

\* The text a role returns: never empty.
RoleOutput(role) == PyStr(role)

\* setup_workflow: five tasks, one per role in the order of RoleTypes, the
\* first with no dependency, each other depending on the one before it.
RECURSIVE SetupFrom(_, _, _)
SetupFrom(zt, counter, k) ==
    IF k > Len(RoleTypes) THEN zt
    ELSE SetupFrom(Created(zt, counter + k, RoleTypes[k],
                           IF k = 1 THEN {} ELSE {counter + k - 1}),
                   counter, k + 1)

\* tasksync.provide_feedback(task_id, role, feedback, severity): one item
\* appended, stamped with the reading t of the clock.
provide_feedback(history, task_id, role, feedback, severity, t) ==
    Append(history, [task_id |-> task_id, role |-> role, feedback |-> feedback,
                     severity |-> severity, timestamp |-> PyIso(t)])

\* Mutant: the loop takes the pending tasks, whatever they depend on.
ReadyList_pending(zt) ==
    SelectSeq([i \in 1..Len(zt) |-> i], LAMBDA i : zt[i].status = "pending")

\* `ready_tasks = self.zen_tasks.get_ready_tasks()`
ReadyList(zt) == get_ready_tasks(zt)

\* execute_workflow is called: setup_workflow adds its five tasks, and the
\* call reaches the top of `while True:`.
execute_workflow ==
    /\ opc = "idle"
    /\ workflows < MaxWorkflows
    /\ workflows' = workflows + 1
    /\ ztasks' = SetupFrom(ztasks, task_counter, 1)
    /\ task_counter' = task_counter + Len(RoleTypes)
    /\ opc' = "while"
    /\ ret' = NoRet
    /\ UNCHANGED << poolVars, globalVars, ready, current, current_role,
                    feedback_history, executed >>

\* The top of the loop: the ready tasks are listed; `if not ready_tasks: break`.
workflow_ready ==
    /\ opc = "while"
    /\ ready' = ReadyList(ztasks)
    /\ opc' = IF ReadyList(ztasks) = << >> THEN "return" ELSE "for"
    /\ ret' = NoRet
    /\ UNCHANGED << poolVars, globalVars, zenVars, current, current_role,
                    feedback_history, workflows, executed >>

\* `for task in ready_tasks:` -- the next task of the list, or back to the
\* top of the loop; switch_role(task.assignee), then
\* update_task(task.id, "in_progress").
workflow_task ==
    /\ opc = "for"
    /\ IF ready = << >>
       THEN /\ opc' = "while"
            /\ UNCHANGED << ready, current, current_role, ztasks >>
       ELSE /\ current' = Head(ready)
            /\ ready' = Tail(ready)
            /\ current_role' = PyStr(ztasks[Head(ready)].assignee)
            /\ ztasks' = Updated(ztasks, Head(ready), "in_progress", None)
            /\ opc' = "execute"
    /\ ret' = NoRet
    /\ UNCHANGED << poolVars, globalVars, task_counter, feedback_history,
                    workflows, executed >>

\* `output = role.execute(self.context, task)` and what follows it: the task
\* completed with the output and an info feedback; or, in
\* `except Exception`, the task blocked and an error feedback; a
\* BaseException is not caught and ends the call.
workflow_execute(outcome) ==
    /\ opc = "execute"
    /\ executed' = Append(executed, [task |-> current,
                                     role |-> ztasks[current].assignee,
                                     outcome |-> outcome,
                                     workflow |-> workflows])
    /\ IF outcome = "BaseException"
       THEN /\ opc' = "idle"
            /\ ret' = Raised("execute_workflow", workflows, PyExc("BaseException", ""))
            /\ UNCHANGED << ztasks, feedback_history, now >>
       ELSE /\ opc' = "for"
            /\ ret' = NoRet
            /\ ztasks' = IF outcome = "ok"
                         THEN Updated(ztasks, current, "completed",
                                      RoleOutput(ztasks[current].assignee))
                         ELSE Updated(ztasks, current, "blocked", None)
            /\ \E t \in 1..MaxTime :
                /\ TimeReads(t)
                /\ now' = t
                /\ feedback_history' =
                        IF outcome = "ok"
                        THEN provide_feedback(feedback_history, current,
                                              ztasks[current].assignee,
                                              "Task completed successfully", "info", t)
                        ELSE provide_feedback(feedback_history, current,
                                              ztasks[current].assignee,
                                              "Task failed", "error", t)
    /\ UNCHANGED << instanceVars, globalVars, task_counter, ready, current,
                    current_role, workflows >>

\* After the loop: the dict is returned, with get_workflow_status() in it.
workflow_return ==
    /\ opc = "return"
    /\ opc' = "idle"
    /\ ret' = Returned("execute_workflow", workflows, get_workflow_status(ztasks))
    /\ UNCHANGED << poolVars, globalVars, zenVars, ready, current, current_role,
                    feedback_history, workflows, executed >>

NextOverseer ==
    \/ execute_workflow
    \/ workflow_ready
    \/ workflow_task
    \/ \E outcome \in RoleOutcomes : workflow_execute(outcome)
    \/ workflow_return

\* The steps of a call that was begun.
WorkflowStep ==
    \/ workflow_ready
    \/ workflow_task
    \/ \E outcome \in RoleOutcomes : workflow_execute(outcome)
    \/ workflow_return

\* One Overseer, on which execute_workflow is called up to MaxWorkflows
\* times; the thread in a call goes on running, and role.execute ends.
InitOverseer == Constructed(1, {"calls"})
FairOverseer == WF_vars(WorkflowStep)
SpecOverseer == InitOverseer /\ [][NextOverseer]_vars /\ FairOverseer

\* ================================================================ claims
Status(id) == tasks[id].status
Terminal == {COMPLETED, FAILED, CANCELLED}

\* The edges of the task state machine, and staying put.
StatusStep(a, b) ==
    \/ a = b
    \/ a = QUEUED /\ b \in {RUNNING, CANCELLED}
    \/ a = RUNNING /\ b \in {COMPLETED, FAILED}

\* C1: in every step, every record stays in the registry and its status
\* either stays or follows an edge Queued -> Running, Running -> Completed,
\* Running -> Failed or Queued -> Cancelled; a new record starts Queued.  So
\* Completed and Failed come only from Running, Cancelled only from Queued,
\* and a terminal status never changes.
C1_StatusPath ==
    [][ /\ \A id \in DOMAIN tasks :
             id \in DOMAIN tasks' /\ StatusStep(tasks[id].status, tasks'[id].status)
        /\ \A id \in DOMAIN tasks' \ DOMAIN tasks : tasks'[id].status = QUEUED ]_vars

\* C1 witness: with the stop flag set, one record was cancelled and another
\* ran to a terminal status.
C1_Witness ==
    /\ shutdown_flag
    /\ \E a, b \in DOMAIN tasks : Status(a) = CANCELLED /\ Status(b) \in {COMPLETED, FAILED}

\* C2: a submit_task whose id is in the registry raises ValueError and leaves
\* the registry (every record, the key set) and the queue as they were.
C2_DuplicateRejected ==
    [][ (ret'.op = "submit_task" /\ ret'.id \in DOMAIN tasks) =>
            /\ ret'.kind = "raise"
            /\ ret'.val.t = "ValueError"
            /\ tasks' = tasks
            /\ task_queue' = task_queue
            /\ unfinished' = unfinished ]_vars

\* C2 witness: a duplicate submit was just rejected for a record that had
\* already completed with its result stored.
C2_Witness ==
    /\ ret.op = "submit_task"
    /\ ret.kind = "raise"
    /\ ret.id \in DOMAIN tasks
    /\ Status(ret.id) = COMPLETED
    /\ tasks[ret.id].result = PyInt(15)

\* C3: a cancel_task on a known id never raises; it returns True exactly
\* when the status was Queued, and then only the status changes, to
\* Cancelled; otherwise it returns False and the registry is unchanged.
C3_CancelOnlyQueued ==
    [][ (ret'.op = "cancel_task" /\ ret'.id \in DOMAIN tasks) =>
            /\ ret'.kind = "return"
            /\ IF tasks[ret'.id].status = QUEUED
               THEN /\ ret'.val = PyBool(TRUE)
                    /\ tasks' = [tasks EXCEPT ![ret'.id].status = CANCELLED]
               ELSE /\ ret'.val = PyBool(FALSE)
                    /\ tasks' = tasks ]_vars

\* C3 witness: cancel_task just returned False for a Running record while
\* another record is Cancelled.
C3_Witness ==
    /\ ret = [op |-> "cancel_task", id |-> ret.id, kind |-> "return", val |-> PyBool(FALSE)]
    /\ ret.id \in DOMAIN tasks
    /\ Status(ret.id) = RUNNING
    /\ \E other \in DOMAIN tasks : Status(other) = CANCELLED /\ other \in cancel_ok

\* C4: a task for which cancel_task returned True never has its callable
\* called, and never gets started_at, result or error.
C4_CancelledNeverRuns ==
    \A id \in cancel_ok :
        /\ invoked[id] = 0
        /\ Status(id) = CANCELLED
        /\ tasks[id].started_at = NoTime
        /\ tasks[id].completed_at = NoTime
        /\ tasks[id].result = None
        /\ tasks[id].error = None

\* C4 witness: the race -- a worker has dequeued a record and, before it
\* takes the lock, cancel_task returned True for that record.
C4_Witness ==
    \E w \in Workers : wpc[w] = "claim" /\ wtask[w] \in cancel_ok

\* C5: the records with status Running are never more than max_workers.
RunningIds == {id \in DOMAIN tasks : Status(id) = RUNNING}

C5_RunningAtMostPool == Cardinality(RunningIds) <= max_workers

\* C5 witness: more tasks than workers -- every worker's record is Running
\* and a further record waits Queued.
C5_Witness ==
    /\ Cardinality(RunningIds) = max_workers
    /\ \E id \in DOMAIN tasks : Status(id) = QUEUED

\* The outcome of a record's callable on its arguments.
Outcome(id) == Call(tasks[id].callable, tasks[id].args)

\* C6: for a task whose work returns v, that was not cancelled, with no
\* shutdown requested, a get_result that does not time out returns exactly v
\* with the record Completed; and a Completed record stays Completed with
\* its result.
C6_ResultReturned ==
    [][ /\ ( /\ ret'.op = "get_result"
             /\ ret'.id \in DOMAIN tasks'
             /\ Call(tasks'[ret'.id].callable, tasks'[ret'.id].args).kind = "return"
             /\ ret'.id \notin cancel_ok'
             /\ ~shutdown_flag'
             /\ ret'.val.t # "TimeoutError" )
           => /\ ret'.kind = "return"
              /\ ret'.val = Call(tasks'[ret'.id].callable, tasks'[ret'.id].args).val
              /\ tasks'[ret'.id].status = COMPLETED
        /\ \A id \in DOMAIN tasks :
              tasks[id].status = COMPLETED
                 => tasks'[id].status = COMPLETED /\ tasks'[id].result = tasks[id].result ]_vars

\* C6 witness: submit(1, simple_task, 5, 10), then get_result(1) returned 15.
C6_Witness ==
    /\ ret = [op |-> "get_result", id |-> 1, kind |-> "return", val |-> PyInt(15)]
    /\ ~shutdown_flag
    /\ Status(1) = COMPLETED

\* C7: when a task's work raises an exception e, the worker's next write
\* makes the record Failed with error = e; a Failed record's error is the
\* one its work raised; and a get_result that finds the record Failed raises
\* that stored error itself, message included.
C7_ErrorKept ==
    [][ /\ \A w \in Workers :
              (wpc[w] = "store" /\ wout[w].kind = "raise" /\ wpc'[w] # "store")
                 => /\ tasks'[wtask[w]].status = FAILED
                    /\ tasks'[wtask[w]].error = wout[w].val
                    /\ wout[w].val = Call(tasks[wtask[w]].callable, tasks[wtask[w]].args).val
        /\ \A id \in DOMAIN tasks' :
              tasks'[id].status = FAILED
                 => tasks'[id].error = Call(tasks'[id].callable, tasks'[id].args).val
        /\ (gpc = "locked" /\ gpc' # "locked" /\ gid \in DOMAIN tasks
                /\ tasks[gid].status = FAILED)
              => /\ ret' = [op |-> "get_result", id |-> gid, kind |-> "raise",
                            val |-> tasks[gid].error]
                 /\ ret'.val = PyExc("ValueError", "Intentional test error") ]_vars

\* C7 witness: get_result just raised the ValueError of failing_task.
C7_Witness ==
    /\ ret.op = "get_result"
    /\ ret.kind = "raise"
    /\ ret.val = PyExc("ValueError", "Intentional test error")
    /\ Status(ret.id) = FAILED
    /\ tasks[ret.id].error = ret.val

\* C8: whatever a task's work raises, the worker that ran it stays alive
\* and the record becomes Failed: no worker thread is ended by an exception,
\* and a record whose work has raised is Failed once its worker has left it.
C8_FailureCaught ==
    /\ \A w \in Workers : wpc[w] # "dead"
    /\ \A id \in DOMAIN tasks :
          (invoked[id] > 0 /\ Outcome(id).kind = "raise"
              /\ \A w \in Workers : wtask[w] # id)
             => Status(id) = FAILED

StartedAfterStop == {id \in queued_at_stop : Status(id) \notin {QUEUED, CANCELLED}}

\* C10 as stated: a record Queued when the stop flag was set stays Queued
\* unless it is cancelled.
C10_QueuedNeverStarted == StartedAfterStop = {}

\* C10: of the records Queued when the stop flag was set, the workers start
\* no more than there were workers past their flag check at that moment
\* (in, or on their way into, the dequeue): each of those may still start
\* one record; a worker that checks the flag after it was set starts none.
C10_StartedOnlyInFlight ==
    Cardinality(StartedAfterStop) <= Cardinality(inflight_at_stop)

\* C10 witness: the flag is set, a record Queued at that moment has been
\* started, and another one is still Queued with every worker gone.
C10_Witness ==
    /\ shutdown_flag
    /\ StartedAfterStop # {}
    /\ \E id \in queued_at_stop : Status(id) = QUEUED
    /\ \A w \in Workers : wpc[w] \in {"exited", "dead"}

\* C11: when shutdown(wait=True) returns, no submitted task is still Queued
\* or Running.
C11_AllDoneAtJoin ==
    joined => \A id \in DOMAIN status_at_join : status_at_join[id] \notin {QUEUED, RUNNING}

\* C11, the state that refutes it: shutdown(wait=True) has returned with
\* every worker out of its loop and a record still Queued in the queue.
C11_Witness ==
    /\ joined
    /\ \E id \in DOMAIN status_at_join : status_at_join[id] = QUEUED
    /\ task_queue # << >>
    /\ \A w \in Workers : wpc[w] = "exited"

\* The error of get_result's second locked block (line 178).
ShutdownError == PyExc("RuntimeError", "shutdown before completed")

\* C12: a caller inside get_result with no timeout, for a record that is
\* Queued with the stop flag set, eventually gets the RuntimeError "Worker
\* shutdown before task ... completed", unless the record leaves Queued.
C12_BlockedGetterFails ==
    \A id \in ResultIds :
        (gpc # "idle" /\ gid = id /\ gtimeout = NoTimeout /\ shutdown_flag
            /\ id \in DOMAIN tasks /\ Status(id) = QUEUED)
        ~> \/ ret = [op |-> "get_result", id |-> id, kind |-> "raise", val |-> ShutdownError]
           \/ id \in DOMAIN tasks /\ Status(id) # QUEUED

\* C12, the state that refutes it: the stop flag is set, the record is
\* Queued with no worker left, the caller of get_result waits for the lock,
\* and a list_tasks call holds the lock for ever.
C12_Witness ==
    /\ gpc \in {"locked", "relock"}
    /\ gtimeout = NoTimeout
    /\ shutdown_flag
    /\ gid \in DOMAIN tasks
    /\ Status(gid) = QUEUED
    /\ \A w \in Workers : wpc[w] = "exited"
    /\ lock = "list_tasks"

C14_ListsEveryId ==
    [][ /\ (ret'.op = "list_tasks" \/ (lock = Free /\ lock' # Free))
              => /\ ret' = [op |-> "list_tasks", id |-> 0, kind |-> "return",
                            val |-> PyInt(Cardinality(DOMAIN tasks))]
                 /\ lock' = Free
        /\ DOMAIN tasks \subseteq DOMAIN tasks' ]_vars

\* C14, the state that refutes it: with one record in the registry, a
\* list_tasks call is inside its locked block, waiting for the lock it
\* holds itself; it has returned nothing.
C14_Witness ==
    /\ lock = "list_tasks"
    /\ Cardinality(DOMAIN tasks) = 1
    /\ ret.op = "none"

\* C15: the registry never loses an id; when submit_task returns, its id is
\* in the registry; every id in the queue or in a worker's hands is in the
\* registry (the record is registered no later than a worker can see it);
\* and get_status and get_task_info on an id in the registry return, they
\* never raise.
C15_VisibleOnReturn ==
    [][ /\ DOMAIN tasks \subseteq DOMAIN tasks'
        /\ (ret'.op = "submit_task" /\ ret'.kind = "return") => ret'.id \in DOMAIN tasks'
        /\ \A i \in 1..Len(task_queue') : task_queue'[i] \in DOMAIN tasks'
        /\ \A w \in Workers : wtask'[w] # 0 => wtask'[w] \in DOMAIN tasks'
        /\ (ret'.op \in {"get_status", "get_task_info"} /\ ret'.id \in DOMAIN tasks)
              => ret'.kind = "return" ]_vars

\* C15 witness: get_task_info returned the info of a record that a worker
\* has dequeued and not yet marked Running.
C15_Witness ==
    /\ ret.op = "get_task_info"
    /\ ret.kind = "return"
    /\ ret.val.items.status = PyStr(QUEUED)
    /\ \E w \in Workers : wpc[w] = "claim" /\ wtask[w] = ret.id

\* C16: get_status, cancel_task and get_task_info on an id that is not in
\* the registry raise KeyError, and so does get_result when its first locked
\* block finds its id not in the registry; the step changes neither the
\* registry, nor any record, nor the queue, nor the stop flag.
C16_UnknownIdFails ==
    [][ /\ (ret'.op \in {"get_status", "cancel_task", "get_task_info"}
                /\ ret'.id \notin DOMAIN tasks)
              => /\ ret'.kind = "raise"
                 /\ ret'.val = PyExc("KeyError", "not found")
                 /\ UNCHANGED << tasks, task_queue, unfinished, shutdown_flag, cancel_ok >>
        /\ (gpc = "locked" /\ gpc' # "locked" /\ gid \notin DOMAIN tasks)
              => /\ ret' = [op |-> "get_result", id |-> gid, kind |-> "raise",
                            val |-> PyExc("KeyError", "not found")]
                 /\ gpc' = "idle"
                 /\ UNCHANGED << tasks, task_queue, unfinished, shutdown_flag, cancel_ok >> ]_vars

\* C16 witness: on the empty registry, get_result(1) raised KeyError.
C16_Witness ==
    /\ ret = [op |-> "get_result", id |-> 1, kind |-> "raise",
              val |-> PyExc("KeyError", "not found")]
    /\ tasks = << >>
    /\ task_queue = << >>

\* C17: with one worker and no record cancelled, the order in which records
\* were marked Running is a prefix of the order in which their submit_task
\* calls took effect: a submitted before b starts before b.
C17_StartInSubmitOrder ==
    (max_workers = 1 /\ cancel_ok = {}) =>
        /\ Len(started) <= Len(submitted)
        /\ \A i \in 1..Len(started) : started[i] = submitted[i]

\* C17 witness: 2 was submitted before 1 while the worker ran nothing yet,
\* and both were started, 2 first.
C17_Witness ==
    /\ max_workers = 1
    /\ cancel_ok = {}
    /\ submitted = << 2, 1 >>
    /\ started = << 2, 1 >>
    /\ tasks[2].started_at <= tasks[1].started_at

\* C18: a record that was Running when the stop flag was set, and whose work
\* terminates, is Completed or Failed with the outcome of its work stored
\* once shutdown(wait=True) has returned (and get_result, which reads the
\* record, then yields that outcome).
C18_RunningFinishes ==
    joined =>
        \A id \in running_at_stop :
            Outcome(id).kind # "hang" =>
                /\ Status(id) \in {COMPLETED, FAILED}
                /\ Status(id) = COMPLETED => tasks[id].result = Outcome(id).val
                /\ Status(id) = FAILED => tasks[id].error = Outcome(id).val

\* C18, the state that refutes it: shutdown(wait=True) has returned, and a
\* record that was Running when the flag was set, whose callable raised, is
\* still Running with nothing stored, its worker thread ended by the
\* exception.
C18_Witness ==
    /\ joined
    /\ \E id \in running_at_stop :
          /\ Status(id) = RUNNING
          /\ Outcome(id).kind = "raise"
          /\ tasks[id].error = None
          /\ invoked[id] = 1
    /\ \E w \in Workers : wpc[w] = "dead"

\* C19: in every state, for every record, a result is stored only if the
\* status is Completed, an error only if it is Failed, never both; and a
\* stored result or error is never replaced by a later step.
C19_ResultXorError ==
    [][ \A id \in DOMAIN tasks' :
          /\ tasks'[id].result # None => tasks'[id].status = COMPLETED
          /\ tasks'[id].error # None => tasks'[id].status = FAILED
          /\ tasks'[id].result = None \/ tasks'[id].error = None
          /\ (id \in DOMAIN tasks /\ tasks[id].result # None)
                => tasks'[id].result = tasks[id].result
          /\ (id \in DOMAIN tasks /\ tasks[id].error # None)
                => tasks'[id].error = tasks[id].error ]_vars

\* C19 witness: one record Completed with its result and no error, another
\* Failed with its error and no result.
C19_Witness ==
    \E a, b \in DOMAIN tasks :
        /\ Status(a) = COMPLETED /\ tasks[a].result = PyInt(15) /\ tasks[a].error = None
        /\ Status(b) = FAILED /\ tasks[b].result = None
        /\ tasks[b].error = PyExc("ValueError", "Intentional test error")

\* C20: in every state, for every record, started_at is set exactly when
\* the status is Running, Completed or Failed, and completed_at exactly when
\* it is Completed or Failed; so a Queued or Cancelled record has neither.
C20_StampsFollowStatus ==
    \A id \in DOMAIN tasks :
        /\ tasks[id].started_at # NoTime <=> Status(id) \in {RUNNING, COMPLETED, FAILED}
        /\ tasks[id].completed_at # NoTime <=> Status(id) \in {COMPLETED, FAILED}
        /\ Status(id) = CANCELLED =>
              tasks[id].started_at = NoTime /\ tasks[id].completed_at = NoTime

\* C20 witness: a Cancelled record that a worker has dequeued and discarded,
\* without stamps, beside a Completed record with both stamps in order.
C20_Witness ==
    \E a, b \in DOMAIN tasks :
        /\ Status(a) = CANCELLED
        /\ tasks[a].started_at = NoTime /\ tasks[a].completed_at = NoTime
        /\ task_queue = << >>
        /\ \A w \in Workers : wtask[w] # a
        /\ Status(b) = COMPLETED
        /\ tasks[b].submitted_at <= tasks[b].started_at
        /\ tasks[b].started_at < tasks[b].completed_at

\* C24: every iteration of get_result decides in the order NotFound, the
\* terminal outcome, the shutdown error, the timeout.  The first locked
\* block raises KeyError for an unknown id, else returns the result of a
\* Completed record, raises the error of a Failed one, raises "was
\* cancelled" for a Cancelled one, whatever the stop flag and the deadline;
\* the flag is read next, and when it is set the second locked block raises
\* the shutdown error for a Queued or Running record without looking at the
\* clock; the deadline is looked at only after the flag was read clear or
\* the second block found the record Completed or Failed, and TimeoutError
\* comes only from there.
C24_PriorityOrder ==
    [][ /\ (gpc = "locked" /\ gpc' # "locked") =>
              IF gid \notin DOMAIN tasks
              THEN ret'.kind = "raise" /\ ret'.val.t = "KeyError"
              ELSE CASE Status(gid) = COMPLETED ->
                          ret' = [op |-> "get_result", id |-> gid, kind |-> "return",
                                  val |-> tasks[gid].result]
                     [] Status(gid) = FAILED ->
                          ret' = [op |-> "get_result", id |-> gid, kind |-> "raise",
                                  val |-> tasks[gid].error]
                     [] Status(gid) = CANCELLED ->
                          ret' = [op |-> "get_result", id |-> gid, kind |-> "raise",
                                  val |-> PyExc("RuntimeError", "was cancelled")]
                     [] OTHER -> gpc' = "flag" /\ ret'.op = "none"
        /\ (gpc = "flag" /\ gpc' # "flag") =>
              /\ ret'.op = "none"
              /\ gpc' = IF shutdown_flag THEN "relock" ELSE "timeout"
        /\ (gpc = "relock" /\ gpc' # "relock" /\ Status(gid) \in {QUEUED, RUNNING}) =>
              /\ ret' = [op |-> "get_result", id |-> gid, kind |-> "raise",
                         val |-> ShutdownError]
              /\ now' = now
        /\ (gpc' = "timeout" /\ gpc # "timeout") =>
              \/ gpc = "flag" /\ ~shutdown_flag
              \/ gpc = "relock" /\ Status(gid) \in {COMPLETED, FAILED}
        /\ (ret'.op = "get_result" /\ ret'.val.t = "TimeoutError") => gpc = "timeout" ]_vars

\* C24 witness: the stop flag is set, the deadline of get_result(1,
\* timeout=0) has passed and the record is Running; the caller stands before
\* the second locked block, which raises the shutdown error, not
\* TimeoutError.
C24_Witness ==
    /\ gpc = "relock"
    /\ shutdown_flag
    /\ gtimeout = 0
    /\ now - gstart > gtimeout
    /\ Status(gid) = RUNNING

\* C25: when get_result raises the shutdown error, the record is Queued or
\* Running in the state the raise is decided in; and a get_result that ends
\* while its record is Cancelled raises "was cancelled".
C25_ShutdownOnlyNonTerminal ==
    [][ /\ (ret'.op = "get_result" /\ ret'.val = ShutdownError) =>
              Status(gid) \in {QUEUED, RUNNING}
        /\ (gpc # "idle" /\ gpc' = "idle" /\ gid \in DOMAIN tasks
                /\ Status(gid) = CANCELLED /\ ret'.val.t # "TimeoutError") =>
              ret' = [op |-> "get_result", id |-> gid, kind |-> "raise",
                      val |-> PyExc("RuntimeError", "was cancelled")] ]_vars

\* C25, the state that refutes it: get_result just raised the shutdown error
\* for a record that cancel_task had already made Cancelled.
C25_Witness ==
    /\ ret = [op |-> "get_result", id |-> 1, kind |-> "raise", val |-> ShutdownError]
    /\ Status(1) = CANCELLED
    /\ 1 \in cancel_ok
    /\ shutdown_flag

\* C26: a worker inside the call of a task's callable, returning or not,
\* holds no lock: the lock is free, or held by a list_tasks caller, never
\* by a worker.  So with a worker inside a call that never returns and the
\* lock free, submit_task, get_status, cancel_task and get_task_info can
\* each take their step, and so can another worker's status update.
C26_NoLockInWork ==
    /\ lock \in {Free, "list_tasks"}
    /\ \A w \in Workers :
          (wpc[w] \in {"call", "hung"} /\ lock = Free) =>
              /\ \A id \in TaskIds :
                    /\ ENABLED get_status(id)
                    /\ ENABLED cancel_task(id)
                    /\ ENABLED get_task_info(id)
                    /\ \A work \in Works : ENABLED submit_task(id, work)
              /\ \A v \in Workers :
                    wpc[v] \in {"claim", "store"} =>
                        ENABLED (worker_claim(v) \/ worker_store(v))

\* C26 witness: one worker is inside a call that never returns, and a
\* record submitted after that call began has been run to Completed by
\* another worker.
C26_Witness ==
    \E w \in Workers, id \in DOMAIN tasks :
        /\ wpc[w] = "hung"
        /\ Status(id) = COMPLETED
        /\ tasks[id].submitted_at > tasks[wtask[w]].started_at

\* C27: under fair scheduling, a shutdown(wait=True) that is waiting in its
\* joins eventually returns, unless the work of a task never terminates.
C27_JoinReturns ==
    (spc = "joining") ~> (spc = "idle" \/ \E w \in Workers : wpc[w] = "hung")

\* C27, the state that refutes it: shutdown(wait=True) waits for a worker
\* that has run its task (the callable returned) and waits for the lock to
\* store the outcome, while a list_tasks call holds the lock for ever.
C27_Witness ==
    /\ spc = "joining"
    /\ lock = "list_tasks"
    /\ \E w \in Workers : wpc[w] = "store"

\* Some record's work never terminates.
SomeWorkHangs == \E i \in DOMAIN tasks : Outcome(i).kind = "hang"

\* C28: under fair scheduling, a record that is Queued or Running
\* eventually is Completed or Failed, unless it is cancelled, a shutdown is
\* requested or some work never terminates.
C28_EveryTaskFinishes ==
    \A id \in ResultIds :
        (id \in DOMAIN tasks /\ Status(id) \in {QUEUED, RUNNING})
        ~> \/ id \in DOMAIN tasks /\ Status(id) \in Terminal
           \/ shutdown_flag
           \/ SomeWorkHangs

\* C28, the state that refutes it: no shutdown, no hanging work, nothing
\* cancelled, and the record is Running for ever: its work raised SystemExit,
\* which ended the only worker thread.
C28_Witness ==
    /\ ~shutdown_flag
    /\ ~SomeWorkHangs
    /\ 1 \in DOMAIN tasks
    /\ Status(1) = RUNNING
    /\ invoked[1] = 1
    /\ wpc[1] = "dead"
    /\ lock = Free

\* How often an id is in the queue, and the workers that hold it.
InQueue(id) == Cardinality({i \in 1..Len(task_queue) : task_queue[i] = id})
Holders(id) == {w \in Workers : wtask[w] = id}

\* C29: the callable of each task id is called at most once; an id is in the
\* queue at most once and then in no worker's hands, or in the hands of at
\* most one worker; once its callable has been called it is never in the
\* queue again, and a Completed or Failed record is neither in the queue nor
\* in a worker's hands.
C29_AtMostOnce ==
    \A id \in TaskIds :
        /\ invoked[id] <= 1
        /\ InQueue(id) + Cardinality(Holders(id)) <= 1
        /\ invoked[id] = 1 => InQueue(id) = 0
        /\ (id \in DOMAIN tasks /\ Status(id) \in {COMPLETED, FAILED}) =>
              InQueue(id) = 0 /\ Holders(id) = {}

\* C29 witness: a Failed and a Completed record, each called once, with
\* every worker back at an empty queue.
C29_Witness ==
    /\ \E a, b \in DOMAIN tasks :
          /\ Status(a) = FAILED /\ invoked[a] = 1
          /\ Status(b) = COMPLETED /\ invoked[b] = 1
    /\ task_queue = << >>
    /\ \A w \in Workers : wpc[w] = "get"

\* The id is in the queue behind a record that is Cancelled.
BehindCancelled(id) ==
    \E i, j \in 1..Len(task_queue) :
        /\ i < j
        /\ task_queue[j] = id
        /\ Status(task_queue[i]) = CANCELLED

\* C30: under fair scheduling, a Queued record that is in the queue behind
\* a Cancelled one eventually leaves Queued (it is started, or cancelled),
\* unless a shutdown is requested or some work never terminates.
C30_CancelledDoesNotStall ==
    \A id \in TaskIds :
        (id \in DOMAIN tasks /\ Status(id) = QUEUED /\ BehindCancelled(id))
        ~> \/ id \in DOMAIN tasks /\ Status(id) # QUEUED
           \/ shutdown_flag
           \/ SomeWorkHangs

\* C30, the state that refutes it: the worker has dequeued the Cancelled
\* record and waits for the lock to look at its status, a list_tasks call
\* holds the lock for ever, and the record queued behind is still Queued.
C30_Witness ==
    /\ ~shutdown_flag
    /\ ~SomeWorkHangs
    /\ lock = "list_tasks"
    /\ wpc[1] = "claim"
    /\ Status(wtask[1]) = CANCELLED
    /\ Len(task_queue) = 1
    /\ Status(task_queue[1]) = QUEUED

\* C21: after delegate_to_background(id, work, args) returned id, the
\* get_result(id) called on what get_global_worker() returns gives back the
\* value of the work; it never raises KeyError.
C21_DelegatedIsRetrievable ==
    [][ ret'.op = "get_result" =>
            /\ ret'.kind = "return"
            /\ ret'.val = Call(ClientWork.callable, ClientWork.args).val ]_vars

\* C21, the state that refutes it: two instances were created, and a
\* thread's get_result on the global worker raised KeyError for the id its
\* delegate_to_background had returned: the record is in the other instance.
C21_Witness ==
    /\ Len(instances) = 2
    /\ ret.op = "get_result"
    /\ ret.kind = "raise"
    /\ ret.val.t = "KeyError"
    /\ ret.id \notin DOMAIN instances[global_worker]
    /\ ret.id \in DOMAIN instances[1]

\* ------------------------------------------------------------- ZenTasks
\* Task i is in the list get_ready_tasks gives for the board as it is.
IsReady(i) == \E k \in DOMAIN get_ready_tasks(ztasks) : get_ready_tasks(ztasks)[k] = i

\* Task i is pending and each of its dependency ids names a task on the
\* board whose status is completed.
PendingWithDepsDone(i) ==
    /\ ztasks[i].status = "pending"
    /\ \A d \in ztasks[i].dependencies :
            d \in DOMAIN ztasks /\ ztasks[d].status = "completed"

\* get_ready_tasks gives exactly those tasks, each once, and a
\* get_ready_tasks response is that list.
ReadyExactly ==
    /\ \A i \in DOMAIN ztasks : IsReady(i) <=> PendingWithDepsDone(i)
    /\ Len(get_ready_tasks(ztasks)) =
            Cardinality({i \in DOMAIN ztasks : PendingWithDepsDone(i)})
    /\ ret.op = "get_ready_tasks" => ret.val = get_ready_tasks(ztasks)

\* A task with a dependency id that no task has is not ready.
NonexistentNeverReady ==
    \A i \in DOMAIN ztasks :
        (\E d \in ztasks[i].dependencies : d \notin DOMAIN ztasks) => ~IsReady(i)

\* Two tasks that depend on each other are not ready, neither of them.
MutualNeverReady ==
    \A i, j \in DOMAIN ztasks :
        (j \in ztasks[i].dependencies /\ i \in ztasks[j].dependencies)
            => ~IsReady(i) /\ ~IsReady(j)

\* The board is one dependency chain: the first task depends on nothing,
\* every other task on the task created before it.
IsChain ==
    \A i \in DOMAIN ztasks :
        ztasks[i].dependencies = IF i = 1 THEN {} ELSE {i - 1}

\* In a chain a ready task is the first that is not completed.
ChainOnlyFirst ==
    IsChain => \A i \in DOMAIN ztasks :
                    IsReady(i) => /\ ztasks[i].status # "completed"
                                  /\ \A j \in 1..(i - 1) : ztasks[j].status = "completed"

\* Every task marked completed has only dependencies that are on the board
\* and completed: statuses were set as a workflow sets them, a task being
\* completed only after what it depends on.
DepsClosed ==
    \A i \in DOMAIN ztasks :
        ztasks[i].status = "completed"
            => \A d \in ztasks[i].dependencies :
                    d \in DOMAIN ztasks /\ ztasks[d].status = "completed"

\* C22 as stated: get_ready_tasks gives exactly the pending tasks all of
\* whose dependency ids name an existing completed task; a task depending
\* on a nonexistent id is never ready, two tasks that depend on each other
\* are never ready, and in a chain only the first not-yet-completed task is
\* ready.
C22_ReadyAsStated ==
    /\ ReadyExactly
    /\ NonexistentNeverReady
    /\ MutualNeverReady
    /\ ChainOnlyFirst

\* C22, amended: get_ready_tasks gives exactly the pending tasks all of
\* whose dependency ids name an existing completed task, so a task depending
\* on a nonexistent id is never ready; while every completed task has only
\* existing, completed dependencies, two tasks that depend on each other are
\* not ready and in a chain only the first not-yet-completed task is ready.
C22_ReadyWhileDepsClosed ==
    /\ ReadyExactly
    /\ NonexistentNeverReady
    /\ DepsClosed => MutualNeverReady /\ ChainOnlyFirst

\* C22: a chain of three tasks, the first completed, the others pending:
\* get_ready_tasks was called and gave the second task alone.
C22_Witness ==
    /\ Len(ztasks) = 3
    /\ IsChain
    /\ DepsClosed
    /\ ztasks[1].status = "completed"
    /\ ztasks[2].status = "pending"
    /\ ztasks[3].status = "pending"
    /\ ret.op = "get_ready_tasks"
    /\ ret.val = << 2 >>

\* ------------------------------------------------------------- Overseer
\* No role has failed so far, in any execute_workflow call.
NoRoleFailed == \A k \in DOMAIN executed : executed[k].outcome = "ok"

\* The response is the dict execute_workflow returned.
WorkflowReturned == ret.op = "execute_workflow" /\ ret.kind = "return"

\* A call that was begun ends.
WorkflowTerminates == (opc # "idle") ~> (opc = "idle")

\* At the return of the n-th call, no role having failed: the roles ran on
\* tasks 1..5n in that order, each workflow's planner first and executor
\* last, and the status counts 5n tasks, all completed, progress 100.
CompletedInOrder ==
    (WorkflowReturned /\ NoRoleFailed) =>
        /\ Len(executed) = Len(RoleTypes) * workflows
        /\ \A k \in DOMAIN executed :
                /\ executed[k].task = k
                /\ executed[k].role = RoleTypes[((k - 1) % Len(RoleTypes)) + 1]
        /\ ret.val.total = Len(RoleTypes) * workflows
        /\ ret.val.completed = Len(RoleTypes) * workflows
        /\ ret.val.progress_percentage = 100
        /\ workflows = 1 => ret.val.completed = 5
        /\ workflows = 2 => ret.val.completed = 10

\* Every task on the board before the step has completed dependencies.
DepsCompleted(i) ==
    \A d \in ztasks[i].dependencies :
        d \in DOMAIN ztasks /\ ztasks[d].status = "completed"

\* A step changes a task's status only from pending to in_progress or from
\* in_progress to completed, both with the task's dependencies completed,
\* or from in_progress to blocked.
StatusInOrder ==
    \A i \in DOMAIN ztasks :
        ztasks'[i].status # ztasks[i].status =>
            \/ /\ ztasks[i].status = "pending"
               /\ ztasks'[i].status = "in_progress"
               /\ DepsCompleted(i)
            \/ /\ ztasks[i].status = "in_progress"
               /\ ztasks'[i].status = "completed"
               /\ DepsCompleted(i)
            \/ /\ ztasks[i].status = "in_progress"
               /\ ztasks'[i].status = "blocked"

\* C23: execute_workflow terminates; when no role fails it completes its
\* five tasks in the order planner, architect, coder, reviewer, executor,
\* each going pending -> in_progress -> completed only after its
\* predecessor is completed, and returns completed = 5 and progress 100;
\* a second call adds five tasks and returns completed = 10.
C23_WorkflowCompletes ==
    /\ WorkflowTerminates
    /\ []CompletedInOrder
    /\ [][StatusInOrder]_vars

\* C23: the second execute_workflow on one Overseer has returned, no role
\* having failed in either call: ten tasks, ten completed.
C23_Witness ==
    /\ WorkflowReturned
    /\ NoRoleFailed
    /\ workflows = 2
    /\ Len(executed) = 10
    /\ ret.val.completed = 10

\* ------------------------------------------------------------- retention
\* C31: no step takes an id out of the registry, and get_status of an id
\* that is in the registry returns its status: it raises KeyError only for
\* an id that was never submitted, so after one success it never fails,
\* whatever the record's status and whether or not the pool was shut down.
C31_NeverEvicted ==
    /\ [](ret.op = "get_status" /\ ret.kind = "return" => ret.id \in DOMAIN tasks)
    /\ [][ /\ DOMAIN tasks \subseteq DOMAIN tasks'
           /\ \A id \in DOMAIN tasks :
                (ret'.op = "get_status" /\ ret'.id = id)
                    => /\ ret'.kind = "return"
                       /\ ret'.val = PyStatus(tasks[id].status) ]_vars

\* C31: get_status returned the status of a record that is terminal, after
\* shutdown(wait=True) has returned.
C31_Witness ==
    /\ ret.op = "get_status"
    /\ ret.kind = "return"
    /\ ret.val.s \in Terminal
    /\ shutdown_flag
    /\ joined

\* ------------------------------------------------------------ timestamps
\* What a step does to the stamps of the record id, which it found in the
\* registry: submitted_at stays; started_at changes exactly in the step
\* from Queued to Running, from None to the reading of the clock;
\* completed_at changes exactly in the step into Completed or Failed, from
\* None to the reading of the clock.
StampedOnce(id) ==
    /\ tasks'[id].submitted_at = tasks[id].submitted_at
    /\ tasks'[id].started_at # tasks[id].started_at
            <=> (tasks[id].status = QUEUED /\ tasks'[id].status = RUNNING)
    /\ tasks'[id].started_at # tasks[id].started_at
            => tasks[id].started_at = NoTime /\ tasks'[id].started_at = now'
    /\ tasks'[id].completed_at # tasks[id].completed_at
            <=> (tasks[id].status \notin {COMPLETED, FAILED}
                    /\ tasks'[id].status \in {COMPLETED, FAILED})
    /\ tasks'[id].completed_at # tasks[id].completed_at
            => tasks[id].completed_at = NoTime /\ tasks'[id].completed_at = now'

\* The stamps that are set are in order.
StampsOrdered(id) ==
    /\ tasks[id].submitted_at # NoTime
    /\ tasks[id].started_at # NoTime => tasks[id].submitted_at <= tasks[id].started_at
    /\ tasks[id].completed_at # NoTime =>
            /\ tasks[id].started_at # NoTime
            /\ tasks[id].started_at <= tasks[id].completed_at

\* C32: for every record, submitted_at is set at submit and never again,
\* started_at is assigned once, at the step from Queued to Running,
\* completed_at once, at the step into Completed or Failed; the clock never
\* going back, submitted_at <= started_at <= completed_at for the stamps
\* that are set.
C32_StampsOnceInOrder ==
    /\ [](\A id \in DOMAIN tasks : StampsOrdered(id))
    /\ [][ /\ now' >= now
           /\ \A id \in DOMAIN tasks : StampedOnce(id)
           /\ \A id \in DOMAIN tasks' \ DOMAIN tasks :
                /\ tasks'[id].submitted_at = now'
                /\ tasks'[id].started_at = NoTime
                /\ tasks'[id].completed_at = NoTime ]_vars

\* C32: a Failed record submitted at one reading of the clock, started at a
\* later one, its three stamps set.
C32_Witness ==
    \E id \in DOMAIN tasks :
        /\ Status(id) = FAILED
        /\ tasks[id].submitted_at < tasks[id].started_at
        /\ tasks[id].started_at <= tasks[id].completed_at

\* ---------------------------------------------------------- get_task_info
\* The keys of the dict a get_task_info call returned.
InfoKeys(r) == DOMAIN r.val.items

\* C33: the dict get_task_info(id) returns has task_id, status and
\* submitted_at; started_at and running_time exactly when the record is
\* Running, Completed or Failed; completed_at and total_time exactly when it
\* is Completed or Failed, total_time being completed_at - submitted_at;
\* error exactly when it is Failed.
C33_InfoKeys ==
    [][ (ret'.op = "get_task_info" /\ ret'.kind = "return") =>
            LET id == ret'.id
                info == ret'.val.items
                keys == InfoKeys(ret')
            IN  /\ {"task_id", "status", "submitted_at"} \subseteq keys
                /\ info.task_id = PyInt(id)
                /\ info.status = PyStr(tasks[id].status)
                /\ info.submitted_at = PyIso(tasks[id].submitted_at)
                /\ "started_at" \in keys <=> tasks[id].status \in {RUNNING, COMPLETED, FAILED}
                /\ "running_time" \in keys <=> "started_at" \in keys
                /\ "completed_at" \in keys <=> tasks[id].status \in {COMPLETED, FAILED}
                /\ "total_time" \in keys <=> "completed_at" \in keys
                /\ "total_time" \in keys =>
                        info.total_time =
                            PyFloat(tasks[id].completed_at - tasks[id].submitted_at)
                /\ "error" \in keys <=> tasks[id].status = FAILED
                /\ keys \subseteq {"task_id", "status", "submitted_at", "started_at",
                                   "running_time", "completed_at", "total_time", "error"}
      ]_vars

\* C33: get_task_info returned the dict of a Failed record that took one
\* unit of the clock from submit to failure: all eight keys.
C33_Witness ==
    /\ ret.op = "get_task_info"
    /\ ret.kind = "return"
    /\ Status(ret.id) = FAILED
    /\ Cardinality(InfoKeys(ret)) = 8
    /\ ret.val.items.total_time = PyFloat(1)

\* -------------------------------------------------------------- hung work
\* The records whose work never returns.
HungIds == {i \in DOMAIN tasks : Outcome(i).kind = "hang"}

\* C34: with at least two workers, one record whose work never returns,
\* and no shutdown, under fair scheduling every other record, its work
\* terminating, eventually is Completed, Failed or Cancelled.
C34_OthersFinish ==
    \A id \in TaskIds :
        (/\ max_workers >= 2
         /\ Cardinality(HungIds) = 1
         /\ id \in DOMAIN tasks
         /\ id \notin HungIds)
        ~> \/ id \in DOMAIN tasks /\ Status(id) \in Terminal
           \/ shutdown_flag
           \/ Cardinality(HungIds) > 1

\* C34, the state that refutes it: one worker is in the call that never
\* returns, the other has dequeued a record whose work terminates and waits
\* for the lock, which a list_tasks call holds for ever; no shutdown.
C34_Witness ==
    \E w1, w2 \in Workers :
        /\ wpc[w1] = "hung"
        /\ wpc[w2] = "claim"
        /\ Status(wtask[w2]) = QUEUED
        /\ Outcome(wtask[w2]).kind = "return"
        /\ lock = "list_tasks"
        /\ ~shutdown_flag

\* ------------------------------------------------------- shutdown, again
\* The step is one of a shutdown call: the call begins its joins, its joins
\* return, or shutdown(wait=False) returns.
ShutdownStep == spc' # spc \/ ret'.op = "shutdown"

\* The flag changes only from unset to set, in a step of shutdown; a step
\* of a shutdown call made with the flag set leaves the flag, the registry
\* and the queue as they are; shutdown(wait=False) returns in its one step.
FlagSetOnce ==
    /\ shutdown_flag' # shutdown_flag => ~shutdown_flag /\ shutdown_flag' /\ ShutdownStep
    /\ (shutdown_flag /\ ShutdownStep) =>
            /\ shutdown_flag'
            /\ tasks' = tasks
            /\ task_queue' = task_queue
    /\ (ret'.op = "shutdown" /\ spc = "idle") => (spc' = "idle" /\ ret'.kind = "return")

\* C35 as stated: the flag is set once and never cleared, a second shutdown
\* call changes neither flag, registry nor queue, and it returns: once a
\* shutdown call has returned, every later shutdown(wait=True) comes back
\* from its joins.
C35_SecondShutdownReturns ==
    /\ [][FlagSetOnce]_vars
    /\ []((shutdown_flag /\ spc = "idle") => []((spc = "joining") => <>(spc = "idle")))

\* C35, amended: the flag is set once and never cleared, and a second
\* shutdown call changes neither flag, registry nor queue;
\* shutdown(wait=False) returns at once, and shutdown(wait=True) returns
\* once a shutdown(wait=True) has returned before it; after a first
\* shutdown(wait=False) it waits for the worker threads as a first call does.
C35_IdempotentFlag ==
    /\ [][FlagSetOnce]_vars
    /\ [](joined => []((spc = "joining") => <>(spc = "idle")))

\* C35: a shutdown(wait=True) has returned and another one is in its
\* joins, a record that was never started still Queued in the queue.
C35_Witness ==
    /\ joined
    /\ spc = "joining"
    /\ shutdown_flag
    /\ task_queue # << >>
    /\ Status(Head(task_queue)) = QUEUED

\* ---------------------------------------------------------- a role raises
\* The tasks that task j depends on, directly or through other tasks.  The
\* Overseer's boards have no cycle: a task depends on a task created before.
RECURSIVE Ancestors(_)
Ancestors(j) ==
    LET d == ztasks[j].dependencies \cap DOMAIN ztasks
    IN  d \cup UNION {Ancestors(k) : k \in d}

\* The runs of a role, among those made so far, that ended in one of `outs`.
Failing(outs) == {k \in DOMAIN executed : executed[k].outcome \in outs}

\* The error-severity feedback items recorded for task i.
ErrorFeedback(i) ==
    {n \in DOMAIN feedback_history :
        feedback_history[n].task_id = i /\ feedback_history[n].severity = "error"}

\* Every task whose role ended in one of `outs` is blocked, with one
\* error-severity feedback item.
BlockedWithFeedback(outs) ==
    \A k \in Failing(outs) :
        /\ ztasks[executed[k].task].status = "blocked"
        /\ Cardinality(ErrorFeedback(executed[k].task)) = 1

\* No task that depends, directly or not, on a task whose role ended in one
\* of `outs` was ever handed to its role: it is pending.
DependentsPending(outs) ==
    \A k \in Failing(outs) : \A j \in DOMAIN ztasks :
        executed[k].task \in Ancestors(j)
            => /\ ztasks[j].status = "pending"
               /\ \A m \in DOMAIN executed : executed[m].task # j

\* A role raises: an Exception, or a BaseException that is no Exception.
Raises == {"Exception", "BaseException"}

\* C36 as stated: a task whose role raises is blocked, with one
\* error-severity feedback item; none of its transitive dependents is ever
\* executed, they stay pending; and the workflow loop terminates.
C36_RaisedIsBlocked ==
    /\ [](BlockedWithFeedback(Raises) /\ DependentsPending(Raises))
    /\ (opc # "idle") ~> (opc = "idle")

\* C36, the state that refutes it: the planner's role raised SystemExit,
\* which `except Exception` does not catch: execute_workflow ended with that
\* exception, the task is in_progress, not blocked, and no feedback was
\* recorded; the tasks that depend on it are pending.
C36_Witness ==
    /\ opc = "idle"
    /\ ret.op = "execute_workflow"
    /\ ret.kind = "raise"
    /\ Len(executed) = 1
    /\ executed[1].outcome = "BaseException"
    /\ ztasks[1].status = "in_progress"
    /\ feedback_history = << >>
    /\ \A j \in 2..5 : ztasks[j].status = "pending"

\* --------------------------------------------------------------- the lock
\* C37: between steps the lock is free, every locked block having released
\* it; so in every state submit_task, get_status, get_task_info,
\* cancel_task and list_tasks can each take their locked step, and so can a
\* worker that is about to mark its record Running or to store an outcome.
C37_LockAlwaysReleased ==
    /\ lock = Free
    /\ ENABLED list_tasks
    /\ \A id \in TaskIds :
          /\ ENABLED get_status(id)
          /\ ENABLED cancel_task(id)
          /\ ENABLED get_task_info(id)
          /\ \A work \in Works : ENABLED submit_task(id, work)
    /\ \A w \in Workers :
          wpc[w] \in {"claim", "store"} => ENABLED (worker_claim(w) \/ worker_store(w))

\* C37, the state that refutes it: a list_tasks call on a registry of two
\* records waits for the lock it holds; get_status cannot take its step, and
\* a worker that has run its record cannot store the outcome.
C37_Witness ==
    /\ lock = "list_tasks"
    /\ Cardinality(DOMAIN tasks) = 2
    /\ \A id \in TaskIds : ~ENABLED get_status(id)
    /\ \E w \in Workers : wpc[w] = "store" /\ ~ENABLED worker_store(w)
    /\ ~shutdown_flag

\* ------------------------------------------------------ one global worker
\* C38: at most one BackgroundWorker is ever created by get_global_worker,
\* and every call of get_global_worker, by any thread, returns that one:
\* the first instance.
C38_OneGlobalInstance ==
    /\ [](Len(instances) <= 1)
    /\ [][ \A t \in Threads :
            (tpc[t] \in {"delegate_return", "get_return"} /\ tpc'[t] # tpc[t])
                => tworker'[t] = 1 ]_vars

\* C38, the state that refutes it: two threads made their first call at the
\* same time; two instances exist, one thread was given the first, the other
\* the second, and the first is no longer the global.
C38_Witness ==
    /\ Len(instances) = 2
    /\ global_worker = 2
    /\ \E t1, t2 \in Threads : tworker[t1] = 1 /\ tworker[t2] = 2

\* ------------------------------------------------- submit after shutdown
\* The record id was submitted after a shutdown(wait=True) had returned: it
\* is in the registry and was not when the joins returned.
SubmittedAfterJoin(id) ==
    joined /\ id \in DOMAIN tasks /\ id \notin DOMAIN status_at_join

\* C39: once shutdown(wait=True) has returned, submit_task of a new id
\* still returns the id and inserts a Queued record in registry and queue;
\* that record is never handed to its callable: it stays Queued, a
\* cancel_task that returns True being the only step that changes it; and
\* every response of a get_result on it while it is Queued is the
\* RuntimeError "Worker shutdown before task ... completed".
C39_AcceptedNeverRun ==
    /\ [](\A id \in DOMAIN tasks :
            SubmittedAfterJoin(id) =>
                /\ Status(id) \in {QUEUED, CANCELLED}
                /\ invoked[id] = 0
                /\ tasks[id].started_at = NoTime)
    /\ [][ /\ (joined /\ ret'.op = "submit_task" /\ ret'.id \notin DOMAIN tasks) =>
                /\ ret'.kind = "return"
                /\ ret'.val = PyInt(ret'.id)
                /\ ret'.id \in DOMAIN tasks'
                /\ tasks'[ret'.id].status = QUEUED
                /\ task_queue' = Append(task_queue, ret'.id)
           /\ \A id \in DOMAIN tasks :
                SubmittedAfterJoin(id) =>
                    /\ tasks'[id] # tasks[id] =>
                            /\ Status(id) = QUEUED
                            /\ tasks'[id] = [tasks[id] EXCEPT !.status = CANCELLED]
                            /\ ret' = [op |-> "cancel_task", id |-> id, kind |-> "return",
                                       val |-> PyBool(TRUE)]
                    /\ (ret'.op = "get_result" /\ ret'.id = id /\ Status(id) = QUEUED) =>
                            /\ ret'.kind = "raise"
                            /\ ret'.val = ShutdownError ]_vars

\* C39: shutdown(wait=True) returned on an empty registry, the record was
\* submitted afterwards, and a get_result on it raised the shutdown error;
\* the record is Queued, in the queue, with no worker left.
C39_Witness ==
    /\ joined
    /\ SubmittedAfterJoin(1)
    /\ Status(1) = QUEUED
    /\ task_queue = << 1 >>
    /\ \A w \in Workers : ~IsAlive(w)
    /\ ret = [op |-> "get_result", id |-> 1, kind |-> "raise", val |-> ShutdownError]

\* ----------------------------------------------------- queue and registry
\* C40: in every state every record in the queue is in the registry, with
\* status Queued or Cancelled, and is there once; a record that is Running,
\* Completed or Failed is not in the queue; the queue grows only by the
\* record that submit_task registers in the same step, so each record is
\* enqueued exactly once.
C40_QueueMatchesRegistry ==
    /\ [](/\ \A k \in DOMAIN task_queue :
                /\ task_queue[k] \in DOMAIN tasks
                /\ Status(task_queue[k]) \in {QUEUED, CANCELLED}
          /\ \A id \in DOMAIN tasks :
                /\ InQueue(id) <= 1
                /\ Status(id) \in {RUNNING, COMPLETED, FAILED} => InQueue(id) = 0)
    /\ [][ /\ \A id \in DOMAIN tasks' \ DOMAIN tasks :
                task_queue' = Append(task_queue, id)
           /\ \A id \in DOMAIN tasks :
                InQueue(id) = 0 => Cardinality({k \in DOMAIN task_queue' :
                                                    task_queue'[k] = id}) = 0 ]_vars

\* C40: a Running record, taken from the queue, beside a record that was
\* cancelled while Queued and is still in the queue.
C40_Witness ==
    \E a, b \in DOMAIN tasks :
        /\ Status(a) = RUNNING
        /\ InQueue(a) = 0
        /\ Status(b) = CANCELLED
        /\ task_queue = << b >>

====
